---------------------------- MODULE Spec2Model ----------------------------
(***************************************************************************)
(* A model of the WYSIWYG markdown editor: the token -> visual tree        *)
(* renderer (renderer/Renderer.js), the visual tree -> markdown restorer   *)
(* (renderer/Restorer.js), the cursor utilities (utils/CursorUtils) and    *)
(* the editor component's debounced restore+render pass.                   *)
(*                                                                         *)
(* Strings are sequences of one-character strings.  The zero-width space   *)
(* U+200B is written "z" and the backquote "'".                           *)
(***************************************************************************)
EXTENDS Integers, Sequences, FiniteSets, TLC

(***************************************************************************)
(* Characters and string helpers                                           *)
(***************************************************************************)
ZWSP == "z"
NL == "\n"
SP == " "
BSL == "\\"
\* the backquote
BT == "'"

RECURSIVE Concat(_)
\* Array.prototype.join("") over a sequence of strings
Concat(ss) == IF ss = <<>> THEN <<>> ELSE Head(ss) \o Concat(Tail(ss))

RECURSIVE JoinWith(_, _)
\* Array.prototype.join(sep)
JoinWith(ss, sep) ==
    IF ss = <<>> THEN <<>>
    ELSE IF Len(ss) = 1 THEN ss[1]
    ELSE ss[1] \o sep \o JoinWith(Tail(ss), sep)

RECURSIVE SumSeq(_)
SumSeq(ns) == IF ns = <<>> THEN 0 ELSE Head(ns) + SumSeq(Tail(ns))

\* the characters of s from position i (1-based) to the end
From(s, i) == SubSeq(s, i, Len(s))

\* s starts, at position i, with the string p
StartsAt(s, i, p) ==
    /\ i >= 1
    /\ i + Len(p) - 1 <= Len(s)
    /\ SubSeq(s, i, i + Len(p) - 1) = p

\* number of trailing characters of s that belong to the set cs
RECURSIVE TrailLen(_, _)
TrailLen(s, cs) ==
    IF s = <<>> \/ s[Len(s)] \notin cs THEN 0
    ELSE 1 + TrailLen(SubSeq(s, 1, Len(s) - 1), cs)

\* s without its trailing run of characters of cs
DropTrail(s, cs) == SubSeq(s, 1, Len(s) - TrailLen(s, cs))

\* number of occurrences of character c in s
Count(s, c) == Cardinality({i \in 1..Len(s) : s[i] = c})

(***************************************************************************)
(* rules.restorer.removableZeroWiseSpace = /\u200b(?![ \n]*$)/g            *)
(***************************************************************************)
\* the rule without its lookahead: every placeholder matches
RemovableAtAnywhere(s, i) == s[i] = ZWSP

\* the regular expression matches at position i of s
RemovableAt(s, i) ==
    /\ s[i] = ZWSP
    /\ \E j \in (i + 1)..Len(s) : s[j] \notin {SP, NL}

\* raw.match(rule) || []  (the matches, as positions)
ZwpMatches(s) == {i \in 1..Len(s) : RemovableAt(s, i)}

RECURSIVE RemoveRemovable(_, _)
\* raw.replace(rule, ""): pos is the position of Head(rest) in the whole string s
RemoveRemovable(s, pos) ==
    IF pos > Len(s) THEN <<>>
    ELSE IF RemovableAt(s, pos) THEN RemoveRemovable(s, pos + 1)
    ELSE <<s[pos]>> \o RemoveRemovable(s, pos + 1)

(***************************************************************************)
(* The visual tree (DOM).  A node is a text node or an element with a tag, *)
(* a class list, its attribute names, data-type, data-sign and children.   *)
(***************************************************************************)
TextNode(s) == [nt |-> "text", text |-> s]

Elem(tag, cls, attrs, type, sign, kids) ==
    [nt |-> "elem", tag |-> tag, cls |-> cls, attrs |-> attrs,
     type |-> type, sign |-> sign, kids |-> kids]

RECURSIVE textContent(_)
\* Node.textContent: the concatenated text of the descendant text nodes
textContent(n) ==
    IF n.nt = "text" THEN n.text
    ELSE Concat([i \in 1..Len(n.kids) |-> textContent(n.kids[i])])

\* Element.children: the child elements (text nodes excluded)
children(n) == SelectSeq(n.kids, LAMBDA k : k.nt = "elem")

\* container.querySelectorAll("&>.cls"): the direct child elements of that class
DirectByClass(n, c) == SelectSeq(n.kids, LAMBDA k : k.nt = "elem" /\ c \in k.cls)

(***************************************************************************)
(* renderer/Restorer.js.  A restorer returns an object {text} or           *)
(* {text, zwpAmount}; a call that raises a TypeError returns Threw.         *)
(***************************************************************************)
Threw == [threw |-> "TypeError"]

IsThrow(r) == "threw" \in DOMAIN r

\* tokens?.zwpAmount || 0
ZwpOf(r) == IF "zwpAmount" \in DOMAIN r THEN r.zwpAmount ELSE 0

isSingleBRWithNoAttributes(element) ==
    LET childElements == children(element)
    IN  /\ Len(childElements) = 1
        /\ childElements[1].tag = "br"
        /\ childElements[1].attrs = {}

restorer_space == [text |-> <<NL, NL>>]

restorer_code(element) == [text |-> textContent(element)]

restorer_br == [text |-> <<BSL, NL>>]

\* element.querySelector("&>.md-image-content").textContent
restorer_image(element) ==
    LET found == DirectByClass(element, "md-image-content")
    IN  IF found = <<>> THEN Threw ELSE [text |-> textContent(found[1])]

\* the fragment one inline child contributes, before placeholders are removed
InlineThrows(inline) == inline.type = "image" /\ IsThrow(restorer_image(inline))

\* the fragment without the case of the emptied leaf
InlineRawLeafText(inline) ==
    LET special == IF inline.type = "br" THEN restorer_br.text
                   ELSE IF inline.type = "image" THEN restorer_image(inline).text
                   ELSE <<>>
    IN  IF special # <<>> THEN special ELSE textContent(inline)

InlineRaw(inline) ==
    LET special == IF inline.type = "br" THEN restorer_br.text
                   ELSE IF inline.type = "image" THEN restorer_image(inline).text
                   ELSE <<>>
    IN  IF special # <<>> THEN special
        ELSE IF isSingleBRWithNoAttributes(inline) THEN <<NL, ">", SP, ZWSP>>
        ELSE textContent(inline)

\* what the .map callback returns for one inline child
InlineFragment(inline) == RemoveRemovable(InlineRaw(inline), 1)

parseInlineElement(container) ==
    LET inlines == DirectByClass(container, "md-i")
        n == Len(inlines)
    IN  IF \E i \in 1..n : InlineThrows(inlines[i]) THEN Threw
        ELSE [text |-> Concat([i \in 1..n |-> InlineFragment(inlines[i])]),
              zwpAmount |->
                  SumSeq([i \in 1..n |-> Cardinality(ZwpMatches(InlineRaw(inlines[i])))])]

restorer_heading(element) ==
    [text |-> element.sign \o <<SP>> \o textContent(element)]

\* the paragraph catcher without its empty-paragraph case
restorer_paragraphInlineOnly(element) == parseInlineElement(element)

restorer_paragraph(element) ==
    IF textContent(element) = <<>> THEN [text |-> <<ZWSP>>]
    ELSE parseInlineElement(element)

RECURSIVE ReplaceBlankLines(_)
\* .replace(/\n\n/g, "\n> \n> ")
ReplaceBlankLines(s) ==
    IF s = <<>> THEN <<>>
    ELSE IF StartsAt(s, 1, <<NL, NL>>)
         THEN <<NL, ">", SP, NL, ">", SP>> \o ReplaceBlankLines(From(s, 3))
         ELSE <<Head(s)>> \o ReplaceBlankLines(Tail(s))

RECURSIVE PrefixBareNewlines(_, _)
\* .replace(/(?<!\\)\n(?!>)/g, "\n> "), scanning s from position pos
PrefixBareNewlines(s, pos) ==
    IF pos > Len(s) THEN <<>>
    ELSE IF /\ s[pos] = NL
            /\ ~(pos > 1 /\ s[pos - 1] = BSL)
            /\ ~(pos < Len(s) /\ s[pos + 1] = ">")
         THEN <<NL, ">", SP>> \o PrefixBareNewlines(s, pos + 1)
         ELSE <<s[pos]>> \o PrefixBareNewlines(s, pos + 1)

\* .replace(/\n> +$/, "\n> \u200b")
ReplaceDanglingMarker(s) ==
    LET k == TrailLen(s, {SP})
        i == Len(s) - k - 1
    IN  IF k >= 1 /\ i >= 1 /\ StartsAt(s, i, <<NL, ">">>)
        THEN SubSeq(s, 1, i - 1) \o <<NL, ">", SP, ZWSP>>
        ELSE s

\* String.prototype.trimEnd
trimEnd(s) == DropTrail(s, {SP, NL})

\* the zwpAmount left by the .map callback after the first k children: each
\* paragraph child overwrites it
RECURSIVE QuoteZwp(_, _)
QuoteZwp(kids, k) ==
    IF k = 0 THEN 0
    ELSE IF kids[k].type = "paragraph" THEN ZwpOf(parseInlineElement(kids[k]))
    ELSE QuoteZwp(kids, k - 1)

\* the catcher returning before the pipeline has run
restorer_blockquoteEarlyReturn(element) == [zwpAmount |-> 0]

restorer_blockquote(element) ==
    LET sign == element.sign \o <<SP>>
        kids == children(element)
        n == Len(kids)
        part(child) ==
            IF child.type = "space" THEN <<">", SP>>
            ELSE IF child.type = "paragraph" THEN sign \o parseInlineElement(child).text
            ELSE <<>>
        throws(child) ==
            \/ child.type = "paragraph" /\ IsThrow(parseInlineElement(child))
            \* restorer.blockquote(child) is an object: it has no .split
            \/ child.type = "blockquote"
    IN  IF \E i \in 1..n : throws(kids[i]) THEN Threw
        ELSE [text |-> trimEnd(ReplaceDanglingMarker(PrefixBareNewlines(
                          ReplaceBlankLines(
                              JoinWith([i \in 1..n |-> part(kids[i])], <<NL>>)), 1))),
              zwpAmount |-> QuoteZwp(kids, n)]

\* restorer[type](block)
RestoreBlock(block) ==
    CASE block.type = "space" -> restorer_space
      [] block.type = "code" -> restorer_code(block)
      [] block.type = "blockquote" -> restorer_blockquote(block)
      [] block.type = "heading" -> restorer_heading(block)
      [] block.type = "paragraph" -> restorer_paragraph(block)
      \* the inline catchers are reachable through the same table
      [] block.type = "br" -> restorer_br
      [] block.type = "image" -> restorer_image(block)
      [] OTHER -> Threw

\* String.prototype.trim() !== ""
IsBlank(s) == \A i \in 1..Len(s) : s[i] \in {SP, NL}

\* the filter of parseHTMLElement: .md-b elements and non-blank direct text nodes
blockElements(container) ==
    SelectSeq(container.kids,
              LAMBDA node : \/ node.nt = "elem" /\ "md-b" \in node.cls
                            \/ node.nt = "text" /\ ~IsBlank(node.text))

\* markdown.replace(/\n{2,}$/, "\n\n")
CollapseTrailingNewlines(s) ==
    IF TrailLen(s, {NL}) >= 2 THEN DropTrail(s, {NL}) \o <<NL, NL>> ELSE s

\* the callback joining blocks instead of ending each with a blank line
BlockContributionBare(block) ==
    IF block.nt = "text" THEN block.text ELSE RestoreBlock(block).text

\* what the forEach callback appends to markdown for one block
BlockContribution(block) ==
    IF block.nt = "text" THEN block.text
    ELSE RestoreBlock(block).text \o <<NL, NL>>

parseHTMLElement(container) ==
    LET blocks == blockElements(container)
        n == Len(blocks)
    IN  IF \E i \in 1..n : blocks[i].nt = "elem" /\ IsThrow(RestoreBlock(blocks[i]))
        THEN Threw
        ELSE [text |-> CollapseTrailingNewlines(
                          Concat([i \in 1..n |-> BlockContribution(blocks[i])])),
              zwpAmount |->
                  SumSeq([i \in 1..n |->
                      IF blocks[i].nt = "text" THEN 0 ELSE ZwpOf(RestoreBlock(blocks[i]))])]

(***************************************************************************)
(* utils/CursorUtils.  A boundary point is a text node (numbered in        *)
(* document order from 1, 0 for the editable node itself) and an offset.   *)
(***************************************************************************)
RECURSIVE TextNodes(_)
\* the texts a TreeWalker(SHOW_TEXT) visits, in document order
TextNodes(n) ==
    IF n.nt = "text" THEN <<n.text>>
    ELSE Concat([i \in 1..Len(n.kids) |-> TextNodes(n.kids[i])])

NotFound == [node |-> -1, offset |-> 0]

\* the fallback without its effect: the point stays unset
FallbackNone(point) == point

\* "Handle edge cases when start or end node is not found"
Fallback(point) == IF point = NotFound THEN [node |-> 0, offset |-> 0] ELSE point

RECURSIVE Walk(_, _, _, _, _, _, _)
\* the while loop of getTextRange, at text node i with charCount characters passed
Walk(texts, i, charCount, startOffset, endOffset, startPt, endPt) ==
    IF i > Len(texts) THEN [start |-> startPt, end |-> endPt]
    ELSE LET nodeLength == Len(texts[i])
             s == IF startPt = NotFound /\ charCount + nodeLength >= startOffset
                  THEN [node |-> i, offset |-> startOffset - charCount] ELSE startPt
             e == IF endPt = NotFound /\ charCount + nodeLength >= endOffset
                  THEN [node |-> i, offset |-> endOffset - charCount] ELSE endPt
         IN  IF s # NotFound /\ e # NotFound THEN [start |-> s, end |-> e]
             ELSE Walk(texts, i + 1, charCount + nodeLength, startOffset, endOffset, s, e)

\* Range.setStart / setEnd raise IndexSizeError for an offset outside the node
ValidPoint(editableNode, point) ==
    /\ point.offset >= 0
    /\ point.offset <= IF point.node = 0 THEN Len(editableNode.kids)
                       ELSE Len(TextNodes(editableNode)[point.node])

\* point p comes before point q in document order
Before(p, q) == p.node < q.node \/ (p.node = q.node /\ p.offset < q.offset)

\* the Range getTextRange returns, or Threw when setStart or setEnd raises
getTextRange(editableNode, startOffset, endOffset) ==
    LET found == Walk(TextNodes(editableNode), 1, 0, startOffset, endOffset,
                      NotFound, NotFound)
        s == Fallback(found.start)
        e == Fallback(found.end)
    IN  IF ~ValidPoint(editableNode, s) \/ ~ValidPoint(editableNode, e) THEN Threw
        \* setEnd before the start collapses the range onto the end point
        ELSE [start |-> IF Before(e, s) THEN e ELSE s, end |-> e]

NoSelection == [rangeCount |-> 0]

\* the window selection restoreCursorSelection leaves: removeAllRanges, then
\* addRange unless getTextRange raised
restoreCursorSelection(container, c) ==
    LET range == getTextRange(container, c.start, c.end)
    IN  IF IsThrow(range) THEN NoSelection
        ELSE [rangeCount |-> 1, start |-> range.start, end |-> range.end]

\* getTextOffset: the length of the text from the start of the node up to the point
getTextOffset(editableNode, point) ==
    IF point.node = 0 THEN 0
    ELSE Len(Concat(SubSeq(TextNodes(editableNode), 1, point.node - 1))) + point.offset

\* saveCursorSelection, with Null for null
Null == [null |-> TRUE]

saveCursorSelection(container, selection) ==
    IF selection.rangeCount = 0 THEN Null
    ELSE [start |-> getTextOffset(container, selection.start),
          end |-> getTextOffset(container, selection.end)]

(***************************************************************************)
(* Tokens, as the marked lexer hands them to the renderer: a token has a   *)
(* type, its raw text and its text; container kinds have child tokens.     *)
(***************************************************************************)
RECURSIVE Repeat(_, _)
\* String.prototype.repeat
Repeat(s, n) == IF n = 0 THEN <<>> ELSE s \o Repeat(s, n - 1)

\* the raw texts of a token list, concatenated: the source they were lexed from
RawOf(tokens) == Concat([i \in 1..Len(tokens) |-> tokens[i].raw])

TokText(s) == [type |-> "text", raw |-> s, text |-> s]

\* strong, em, del: a delimiter run around inline content
TokEnclosed(type, sign, tokens) ==
    [type |-> type, raw |-> sign \o RawOf(tokens) \o sign, text |-> RawOf(tokens),
     tokens |-> tokens]

TokCodespan(s) == [type |-> "codespan", raw |-> <<BT>> \o s \o <<BT>>, text |-> s]

TokBr == [type |-> "br", raw |-> <<BSL, NL>>]

\* a backslash before a punctuation character: the character itself
TokEscape(c) == [type |-> "escape", raw |-> <<BSL, c>>, text |-> <<c>>]

TokLink(tokens, href) ==
    [type |-> "link", raw |-> <<"[">> \o RawOf(tokens) \o <<"]", "(">> \o href \o <<")">>,
     text |-> RawOf(tokens), href |-> href, title |-> <<>>, tokens |-> tokens]

TokHeading(depth, tokens, trail) ==
    [type |-> "heading", raw |-> Repeat(<<"#">>, depth) \o <<SP>> \o RawOf(tokens) \o trail,
     depth |-> depth, text |-> RawOf(tokens), tokens |-> tokens]

TokParagraph(tokens) ==
    [type |-> "paragraph", raw |-> RawOf(tokens), text |-> RawOf(tokens), tokens |-> tokens]

TokSpace(raw) == [type |-> "space", raw |-> raw]

TokCode(lang, text, trail) ==
    [type |-> "code",
     raw |-> <<BT, BT, BT>> \o lang \o <<NL>> \o text \o <<NL, BT, BT, BT>> \o trail,
     lang |-> lang, text |-> text]

RECURSIVE QuoteLines(_)
\* every line of s behind the quote marker
QuoteLines(s) ==
    IF s = <<>> THEN <<>>
    ELSE IF Head(s) = NL THEN <<NL, ">", SP>> \o QuoteLines(Tail(s))
    ELSE <<Head(s)>> \o QuoteLines(Tail(s))

\* a block-quote: text is the quoted content, raw has the marker on every line
TokBlockquote(tokens) ==
    [type |-> "blockquote", raw |-> <<">", SP>> \o QuoteLines(RawOf(tokens)),
     text |-> RawOf(tokens), tokens |-> tokens]

(***************************************************************************)
(* renderer/Renderer.js.  A renderer returns the list of nodes its HTML    *)
(* parses to (the empty list for null).                                    *)
(***************************************************************************)
\* the text node an HTML parser makes of s: none for the empty string
TextKids(s) == IF s = <<>> THEN <<>> ELSE <<TextNode(s)>>

\* what string concatenation makes of undefined (an absent data-sign, a missing sign)
Undefined == <<"u", "n", "d", "e", "f", "i", "n", "e", "d">>

\* first position >= pos at which sep occurs in s, or 0
RECURSIVE IndexOf(_, _, _)
IndexOf(s, sep, pos) ==
    IF pos + Len(sep) - 1 > Len(s) THEN 0
    ELSE IF StartsAt(s, pos, sep) THEN pos
    ELSE IndexOf(s, sep, pos + 1)

RECURSIVE split(_, _)
\* String.prototype.split(separator)
split(s, sep) ==
    IF sep = <<>> THEN [i \in 1..Len(s) |-> <<s[i]>>]
    ELSE LET at == IndexOf(s, sep, 1)
         IN  IF at = 0 THEN <<s>>
             ELSE <<SubSeq(s, 1, at - 1)>> \o split(From(s, at + Len(sep)), sep)

\* ${signs[k]} in a template literal (k is 0-based)
SignAt(signs, k) == IF k + 1 <= Len(signs) THEN signs[k + 1] ELSE Undefined

renderEnclosedInlineElement(type, content, prefixSign, suffixSign) ==
    Elem("span", {"md-i"}, {"class", "data-type"}, type, Undefined,
         << Elem("span", {"md-sign", "md-prefix-sign"}, {"class"}, "", Undefined,
                 TextKids(prefixSign)),
            content,
            Elem("span", {"md-sign", "md-suffix-sign"}, {"class"}, "", Undefined,
                 TextKids(suffixSign)) >>)

\* text.replace(/^\$\u200b\$/, "\u200b")
UnescapePlaceholder(text) ==
    IF StartsAt(text, 1, <<"$", ZWSP, "$">>) THEN <<ZWSP>> \o From(text, 4) ELSE text

renderer_text(token) ==
    Elem("span", {"md-i"}, {"class", "data-type"}, "inlineText", Undefined,
         TextKids(UnescapePlaceholder(token.text)))

renderer_br == Elem("br", {"md-i"}, {"class", "data-type"}, "br", Undefined, <<>>)

renderer_codespan(token) ==
    LET signs == split(token.raw, token.text)
    IN  renderEnclosedInlineElement(token.type,
            Elem("code", {"md-content"}, {"class"}, "", Undefined, TextKids(token.text)),
            SignAt(signs, 0), SignAt(signs, 1))

renderer_image(token) ==
    Elem("span", {"md-i"}, {"class", "data-type"}, token.type, Undefined,
         << Elem("span", {"md-image-content"}, {"class"}, "", Undefined, TextKids(token.raw)),
            Elem("img", {}, {"src", "title"}, "", Undefined, <<>>) >>)

RECURSIVE parseInline(_)
RECURSIVE RenderInline(_)
\* renderer.strong / em / del / link: the content element wraps the rendered children
RenderInline(token) ==
    LET signs == split(token.raw, token.text)
        tag == CASE token.type = "strong" -> "strong"
                 [] token.type = "em" -> "em"
                 [] token.type = "del" -> "del"
                 [] OTHER -> "a"
        attrs == IF token.type = "link" THEN {"class", "href", "title"} ELSE {"class"}
    IN  CASE token.type \in {"text", "escape"} -> renderer_text(token)
          [] token.type = "br" -> renderer_br
          [] token.type = "codespan" -> renderer_codespan(token)
          [] token.type = "image" -> renderer_image(token)
          [] OTHER ->
               renderEnclosedInlineElement(token.type,
                   Elem(tag, {"md-content"}, attrs, "", Undefined, parseInline(token.tokens)),
                   SignAt(signs, 0), SignAt(signs, 1))

\* this.parser.parseInline(tokens)
parseInline(tokens) == [i \in 1..Len(tokens) |-> RenderInline(tokens[i])]

renderer_space(token) ==
    IF token.raw = <<NL>> THEN <<>>
    ELSE << Elem("p", {"md-e", "md-b"}, {"class", "data-type"}, token.type, Undefined, <<>>) >>

renderer_code(token) ==
    << Elem("pre", {"md-e", "md-b"}, {"class", "data-type"}, token.type, Undefined,
            << Elem("span", {"md-sign", "md-prefix-sign"}, {"class"}, "", Undefined,
                    TextKids(<<BT, BT, BT>> \o token.lang \o <<NL>>)),
               Elem("code", {"code__block"}, {"class"}, "", Undefined, TextKids(token.text)),
               Elem("span", {"md-sign", "md-suffix-sign"}, {"class"}, "", Undefined,
                    TextKids(<<NL, BT, BT, BT>>)) >>) >>

renderer_heading(token) ==
    << Elem("h", {"md-e", "md-b"}, {"class", "data-type", "data-anchor", "data-sign"},
            token.type, Repeat(<<"#">>, token.depth) \o <<SP>>,
            << Elem("span", {"md-content"}, {"class"}, "", Undefined,
                    parseInline(token.tokens)) >>) >>

renderer_paragraph(token) ==
    << Elem("p", {"md-e", "md-b"}, {"class", "data-type"}, "paragraph", Undefined,
            parseInline(token.tokens)) >>

RECURSIVE parse(_)
RECURSIVE RenderBlock(_)
\* the renderer of a block token; renderer.blockquote wraps the rendered children
RenderBlock(token) ==
    CASE token.type = "space" -> renderer_space(token)
      [] token.type = "code" -> renderer_code(token)
      [] token.type = "heading" -> renderer_heading(token)
      [] token.type = "paragraph" -> renderer_paragraph(token)
      [] token.type = "blockquote" ->
           << Elem("blockquote", {"md-e", "md-b"}, {"class", "data-type", "data-sign"},
                   token.type, <<">">>, parse(token.tokens)) >>

\* this.parser.parse(tokens)
parse(tokens) == Concat([i \in 1..Len(tokens) |-> RenderBlock(tokens[i])])

\* parseMarkdownString, from the tokens on: the children of the editor's root
Root(kids) == Elem("div", {"markdwon-editor"}, {"class"}, "", Undefined, kids)

parseMarkdownString(tokens) == Root(parse(tokens))

(***************************************************************************)
(* The documents of the model: token lists as marked.parse lexes them.     *)
(* A heading or a fenced code block takes the blank line after it into its *)
(* raw; a paragraph or a block-quote is followed by a space token.         *)
(***************************************************************************)
MaxBlocks == 2

BlankLine == <<NL, NL>>

Ta == TokText(<<"a">>)
Tb == TokText(<<"b">>)

InlineChoices ==
    { <<Ta>>,
      <<TokText(<<"H", "i">>)>>,
      <<TokEnclosed("strong", <<"*", "*">>, <<Ta>>)>>,
      <<TokEnclosed("em", <<"*">>, <<Ta>>)>>,
      <<TokEnclosed("del", <<"~", "~">>, <<Ta>>)>>,
      <<TokCodespan(<<"a">>)>>,
      <<TokLink(<<Ta>>, <<"u">>)>>,
      <<Ta, TokBr, Tb>>,
      <<TokText(<<"a", SP>>), TokEnclosed("strong", <<"*", "*">>, <<Tb>>)>>,
      <<TokEnclosed("strong", <<"_", "_">>, <<TokEnclosed("em", <<"*">>, <<Ta>>)>>)>> }

HeadingInlines == { <<Ta>>, <<TokText(<<"H", "i">>)>>, <<TokEnclosed("em", <<"*">>, <<Ta>>)>> }

Depths == {1, 2, 6}

\* the shapes of the blocks a document is made of
BlockShapes ==
    [kind : {"heading"}, depth : Depths, tokens : HeadingInlines]
    \cup [kind : {"paragraph"}, depth : {0}, tokens : InlineChoices]
    \cup [kind : {"code"}, depth : {0}, tokens : {<<>>}]
    \cup [kind : {"blockquote"}, depth : {0},
          tokens : { <<TokParagraph(<<Ta>>)>>,
                     <<TokParagraph(<<Ta>>), TokSpace(BlankLine), TokParagraph(<<Tb>>)>> }]

\* the top-level tokens of one block; last: no block follows it
BlockTokens(shape, last) ==
    LET trail == IF last THEN <<>> ELSE BlankLine
        gap == IF last THEN <<>> ELSE <<TokSpace(BlankLine)>>
    IN  CASE shape.kind = "heading" -> <<TokHeading(shape.depth, shape.tokens, trail)>>
          [] shape.kind = "code" -> <<TokCode(<<"j", "s">>, <<"x">>, trail)>>
          [] shape.kind = "paragraph" -> <<TokParagraph(shape.tokens)>> \o gap
          [] shape.kind = "blockquote" -> <<TokBlockquote(shape.tokens)>> \o gap

Lexed(shapes) ==
    Concat([i \in 1..Len(shapes) |-> BlockTokens(shapes[i], i = Len(shapes))])

Docs == UNION {{Lexed(shapes) : shapes \in [1..n -> BlockShapes]} : n \in 1..MaxBlocks}

(***************************************************************************)
(* State                                                                   *)
(***************************************************************************)
VARIABLES
    src,        \* the tokens of the markdown source being rendered
    tree,       \* the visual tree: the root element of the editing surface
    restored,   \* the result of parseHTMLElement on the tree
    stage,      \* "source", "rendered", "restored"
    block,      \* a block of the visual tree handed to its restorer
    frags,      \* what each inline child of the block contributed
    blockOut,   \* the object the block's restorer returned
    bstage,     \* "edited", "restored"
    cursor,     \* the editor's cursor record {start, end}
    selection,  \* the window selection: no range, or one with its boundary points
    content,    \* the editor's content state: the markup handed to the editing surface
    gen,        \* how many times the editor component has rendered again
    timers,     \* the pending timeouts, each with the closure that set it
    passes,     \* the passes waiting for parseMarkdownString to resolve
    pending,    \* the state updates React has still to render: "none", "content", "both"
    signals,    \* how many change signals the handler has received
    started,    \* how many passes have started
    last,       \* the pass that finished last, with what it started from
    thisLexer,  \* the lexer a tokenizer works for: its state.top and its token list
    lexSrc,     \* the source the lexer has still to tokenize
    quoteTok,   \* what tokenizer.blockquote returned
    argument,   \* the value handed to a function of the renderer or of StringUtils
    returned,   \* what the function returned
    called,     \* which function was called: "none" before the call
    liveTree,   \* the elements of the editing surface's live tree
    signDisplay,    \* the elements whose class list holds "sign-display"
    lastHasSignDisplayElementRef    \* lastHasSignDisplayElementRef.current

rtVars == <<src, tree, restored, stage>>

blockVars == <<block, frags, blockOut, bstage>>

cursorVars == <<cursor, selection>>

editorVars == <<content, gen, timers, passes, pending, signals, started, last>>

lexVars == <<thisLexer, lexSrc, quoteTok>>

fnVars == <<argument, returned, called>>

displayVars == <<liveTree, signDisplay, lastHasSignDisplayElementRef>>

vars == <<src, tree, restored, stage, block, frags, blockOut, bstage, cursor, selection,
          content, gen, timers, passes, pending, signals, started, last,
          thisLexer, lexSrc, quoteTok, argument, returned, called,
          liveTree, signDisplay, lastHasSignDisplayElementRef>>

NoResult == [text |-> <<>>, zwpAmount |-> 0]

\* the variables of the other specifications, at rest
RoundTripIdle ==
    /\ src = <<>>
    /\ tree = Root(<<>>)
    /\ restored = NoResult
    /\ stage = "idle"

BlockIdle ==
    /\ block = Root(<<>>)
    /\ frags = <<>>
    /\ blockOut = NoResult
    /\ bstage = "idle"

CursorIdle ==
    /\ cursor = [start |-> 0, end |-> 0]
    /\ selection = NoSelection

NoPass == [id |-> 0, outcome |-> "none"]

EditorIdle ==
    /\ content = Root(<<>>)
    /\ gen = 0
    /\ timers = {}
    /\ passes = <<>>
    /\ pending = "none"
    /\ signals = 0
    /\ started = 0
    /\ last = NoPass

\* tokenizer.blockquote has not been called
NotCalled == [type |-> "none"]

LexIdle ==
    /\ thisLexer = [state |-> [top |-> TRUE], tokens |-> <<>>]
    /\ lexSrc = <<>>
    /\ quoteTok = NotCalled

FnIdle ==
    /\ argument = <<>>
    /\ returned = <<>>
    /\ called = "none"

DisplayIdle ==
    /\ liveTree = {}
    /\ signDisplay = {}
    /\ lastHasSignDisplayElementRef = Null

(***************************************************************************)
(* Round trip: render a document, then restore its tree unedited.          *)
(***************************************************************************)
InitRoundTrip ==
    /\ DisplayIdle
    /\ src \in Docs
    /\ tree = Root(<<>>)
    /\ restored = NoResult
    /\ stage = "source"
    /\ BlockIdle
    /\ CursorIdle
    /\ EditorIdle
    /\ LexIdle
    /\ FnIdle

Render ==
    /\ stage = "source"
    /\ tree' = parseMarkdownString(src)
    /\ stage' = "rendered"
    /\ UNCHANGED <<displayVars, lexVars, fnVars, src, restored, blockVars, cursorVars, editorVars>>

Restore ==
    /\ stage = "rendered"
    /\ restored' = parseHTMLElement(tree)
    /\ stage' = "restored"
    /\ UNCHANGED <<displayVars, lexVars, fnVars, src, tree, blockVars, cursorVars, editorVars>>

NextRoundTrip == Render \/ Restore

SpecRoundTrip == InitRoundTrip /\ [][NextRoundTrip]_vars

\* normalize: the text without its trailing blank lines
Normalize(s) == DropTrail(s, {NL})

\* C1: restoring the unedited tree of a rendered document yields the document's
\* markdown, trailing blank lines aside
RoundTrip ==
    stage = "restored" =>
        /\ ~IsThrow(restored)
        /\ Normalize(restored.text) = Normalize(RawOf(src))

(***************************************************************************)
(* The visual trees an edit can leave behind                               *)
(***************************************************************************)
MaxInlines == 2
MaxKids == 2

InlineText(s) ==
    Elem("span", {"md-i"}, {"class", "data-type"}, "inlineText", Undefined, TextKids(s))

\* an inline leaf emptied by the user: the editing surface leaves a bare <br> in it
InlineLoneBr ==
    Elem("span", {"md-i"}, {"class", "data-type"}, "inlineText", Undefined,
         <<Elem("br", {}, {}, "", Undefined, <<>>)>>)

InlineNodes ==
    { InlineText(<<"a">>), InlineText(<<ZWSP>>), InlineText(<<"a", ZWSP>>),
      InlineText(<<ZWSP, "a">>), InlineText(<<ZWSP, SP>>), InlineText(<<ZWSP, ZWSP>>),
      InlineText(<<"a", ZWSP, NL>>),
      RenderInline(TokEnclosed("strong", <<"*", "*">>, <<Tb>>)),
      renderer_br,
      InlineLoneBr,
      renderer_image([type |-> "image", raw |-> <<"!", "[", "]", "(", "u", ")">>]) }

Paragraph(kids) ==
    Elem("p", {"md-e", "md-b"}, {"class", "data-type"}, "paragraph", Undefined, kids)

\* marked merges adjacent text tokens and so renders no two adjacent text leaves
NoAdjacentText(kids) ==
    \A i \in 1..(Len(kids) - 1) :
        ~(kids[i].type = "inlineText" /\ kids[i + 1].type = "inlineText"
          /\ kids[i] # InlineLoneBr /\ kids[i + 1] # InlineLoneBr)

\* a child that is no inline node: a span without the md-i class, as pasted markup
StraySpan == Elem("span", {}, {}, "", Undefined, TextKids(<<"x">>))

Paragraphs ==
    {Paragraph(kids) : kids \in
        {k \in UNION {[1..n -> InlineNodes \union {StraySpan}] : n \in 0..MaxInlines} :
            NoAdjacentText(k)}}

(***************************************************************************)
(* A block restorer applied to one block of an edited tree.                *)
(***************************************************************************)
InitBlock ==
    /\ DisplayIdle
    /\ block \in Paragraphs
    /\ frags = <<>>
    /\ blockOut = NoResult
    /\ bstage = "edited"
    /\ RoundTripIdle
    /\ CursorIdle
    /\ EditorIdle
    /\ LexIdle
    /\ FnIdle

\* the array the .map callback of parseInlineElement builds, with the matches it counted
MapInline(container) ==
    LET inlines == DirectByClass(container, "md-i")
    IN  [i \in 1..Len(inlines) |->
            [raw |-> InlineRaw(inlines[i]),
             out |-> InlineFragment(inlines[i]),
             zwp |-> Cardinality(ZwpMatches(InlineRaw(inlines[i])))]]

RestoreParagraph ==
    /\ bstage = "edited"
    /\ block.type = "paragraph"
    /\ blockOut' = restorer_paragraph(block)
    /\ frags' = IF textContent(block) = <<>> THEN <<>> ELSE MapInline(block)
    /\ bstage' = "restored"
    /\ UNCHANGED <<displayVars, lexVars, fnVars, block, rtVars, cursorVars, editorVars>>

NextBlock == RestoreParagraph

SpecBlock == InitBlock /\ [][NextBlock]_vars

\* C8: in a restored paragraph every remaining placeholder is followed only by
\* spaces (line ends allowed too) up to the end of the paragraph's text: none
\* survives in the middle of it
PlaceholdersOnlyTrailing ==
    (bstage = "restored" /\ ~IsThrow(blockOut)) =>
        \A i \in 1..Len(blockOut.text) :
            blockOut.text[i] = ZWSP =>
                \A j \in (i + 1)..Len(blockOut.text) : blockOut.text[j] \in {SP, NL}

\* s ends in a placeholder followed only by spaces
EndsInPlaceholder(s) ==
    LET k == TrailLen(s, {SP}) IN Len(s) > k /\ s[Len(s) - k] = ZWSP

\* C9: a fragment ending in a placeholder followed only by spaces keeps that
\* placeholder in place and counts 0 for it: every other placeholder of the fragment,
\* and nothing else, is removed and counted
TrailingPlaceholderKept ==
    bstage = "restored" =>
        \A i \in 1..Len(frags) :
            EndsInPlaceholder(frags[i].raw) =>
                /\ EndsInPlaceholder(frags[i].out)
                /\ TrailLen(frags[i].out, {SP}) = TrailLen(frags[i].raw, {SP})
                /\ Count(frags[i].out, ZWSP) = 1
                /\ frags[i].zwp = Count(frags[i].raw, ZWSP) - 1
                /\ Len(frags[i].out) = Len(frags[i].raw) - frags[i].zwp

TrailingPlaceholderSeen ==
    /\ bstage = "restored"
    /\ \E i \in 1..Len(frags) :
          /\ EndsInPlaceholder(frags[i].raw)
          /\ TrailLen(frags[i].raw, {SP}) >= 1
          /\ ZWSP \in {blockOut.text[j] : j \in 1..Len(blockOut.text)}

\* C11: a paragraph with no text content at all restores to exactly one
\* placeholder and adds 0 to the total placeholder count of the tree; a paragraph
\* with text content returns exactly what the inline restorer returns for it
EmptyParagraphSynthesized ==
    bstage = "restored" =>
        IF textContent(block) = <<>>
        THEN /\ blockOut.text = <<ZWSP>>
             /\ ZwpOf(blockOut) = 0
             /\ parseHTMLElement(Root(<<block>>)).zwpAmount = 0
        ELSE blockOut = parseInlineElement(block)

\* a paragraph that has inline children but no text was restored
EmptyParagraphRestored ==
    /\ bstage = "restored"
    /\ textContent(block) = <<>>
    /\ Len(block.kids) >= 1
    /\ blockOut.text = <<ZWSP>>

\* the paragraph's only content is one inline leaf holding a single placeholder
SolePlaceholder(b) ==
    /\ Len(b.kids) = 1
    /\ Len(DirectByClass(b, "md-i")) = 1
    /\ textContent(b) = <<ZWSP>>

\* C10: restoring a paragraph whose only content is a single placeholder yields empty
\* text and placeholderCount 1
SolePlaceholderStripped ==
    (bstage = "restored" /\ SolePlaceholder(block)) =>
        /\ blockOut.text = <<>>
        /\ ZwpOf(blockOut) = 1

\* C10, amended: it yields the placeholder itself and placeholderCount 0
SolePlaceholderKept ==
    (bstage = "restored" /\ SolePlaceholder(block)) =>
        /\ blockOut.text = <<ZWSP>>
        /\ ZwpOf(blockOut) = 0

SolePlaceholderRestored == bstage = "restored" /\ SolePlaceholder(block)

(***************************************************************************)
(* parseHTMLElement applied to an edited tree.                             *)
(***************************************************************************)
RootNodes ==
    { Paragraph(<<InlineText(<<"a">>)>>),
      Paragraph(<<InlineText(<<ZWSP, "a">>)>>),
      Paragraph(<<InlineText(<<"a", ZWSP>>)>>),
      Paragraph(<<>>),
      renderer_space(TokSpace(BlankLine))[1],
      renderer_heading(TokHeading(1, <<Ta>>, <<>>))[1],
      renderer_code(TokCode(<<"j", "s">>, <<"x">>, <<>>))[1],
      RenderBlock(TokBlockquote(<<TokParagraph(<<TokText(<<ZWSP, "b">>)>>)>>))[1],
      RenderBlock(TokBlockquote(<<TokBlockquote(<<TokParagraph(<<Ta>>)>>)>>))[1],
      TextNode(<<"t">>),
      TextNode(<<"t", NL>>),
      TextNode(<<NL>>),
      Elem("div", {}, {}, "", Undefined, <<TextNode(<<"d">>)>>) }

Roots == {Root(kids) : kids \in UNION {[1..n -> RootNodes] : n \in 0..MaxKids}}

InitTree ==
    /\ DisplayIdle
    /\ src = <<>>
    /\ tree \in Roots
    /\ restored = NoResult
    /\ stage = "rendered"
    /\ BlockIdle
    /\ CursorIdle
    /\ EditorIdle
    /\ LexIdle
    /\ FnIdle

SpecTree == InitTree /\ [][Restore]_vars

\* a run of two or more trailing newlines cut down to its first two
CollapsedTail(s) ==
    LET k == TrailLen(s, {NL})
    IN  IF k >= 2 THEN SubSeq(s, 1, Len(s) - k + 2) ELSE s

\* the restored text of a block-level child
BlockText(b) == IF b.nt = "text" THEN b.text ELSE RestoreBlock(b).text

AllRestorable(bs) == \A i \in 1..Len(bs) : bs[i].nt = "elem" => ~IsThrow(RestoreBlock(bs[i]))

PlaceholderSum(bs) ==
    SumSeq([i \in 1..Len(bs) |->
               IF bs[i].nt = "elem" /\ "zwpAmount" \in DOMAIN RestoreBlock(bs[i])
               THEN RestoreBlock(bs[i]).zwpAmount ELSE 0])

\* C7: the text is the blocks' restored texts joined by a blank line, trailing
\* newlines collapsed to two; placeholderCount is the sum of the blocks' counts
JoinedByBlankLine ==
    LET bs == blockElements(tree)
    IN  (stage = "restored" /\ AllRestorable(bs)) =>
            /\ ~IsThrow(restored)
            /\ restored.text =
                   CollapsedTail(JoinWith([i \in 1..Len(bs) |-> BlockText(bs[i])], BlankLine))
            /\ restored.zwpAmount = PlaceholderSum(bs)

\* C7, amended: a blank line ends every element block, the last one too, and a
\* bare text node is taken verbatim with no separator
EndedByBlankLine ==
    LET bs == blockElements(tree)
        ended(b) == IF b.nt = "text" THEN b.text ELSE BlockText(b) \o BlankLine
    IN  stage = "restored" =>
            IF AllRestorable(bs)
            THEN /\ ~IsThrow(restored)
                 /\ restored.text = CollapsedTail(Concat([i \in 1..Len(bs) |-> ended(bs[i])]))
                 /\ restored.zwpAmount = PlaceholderSum(bs)
            ELSE IsThrow(restored)

SeveralBlocksRestored ==
    /\ stage = "restored"
    /\ ~IsThrow(restored)
    /\ Len(blockElements(tree)) >= 2
    /\ restored.zwpAmount >= 1

(***************************************************************************)
(* restoreCursorSelection applied to a tree and a cursor record.           *)
(***************************************************************************)
MaxOffset == 4

CursorTrees ==
    {Root(<<k>>) : k \in RootNodes}
    \cup { Root(<<>>),
           Root(<<Paragraph(<<InlineText(<<"a">>), renderer_br, InlineText(<<"b">>)>>)>>),
           Root(<<Paragraph(<<InlineText(<<"a">>)>>), Paragraph(<<InlineText(<<"b", "c">>)>>)>>) }

InitCursor ==
    /\ DisplayIdle
    /\ src = <<>>
    /\ tree \in CursorTrees
    /\ restored = NoResult
    /\ stage = "cursor saved"
    /\ cursor \in {c \in [start : 0..MaxOffset, end : 0..MaxOffset] : c.start <= c.end}
    /\ selection = NoSelection
    /\ BlockIdle
    /\ EditorIdle
    /\ LexIdle
    /\ FnIdle

RestoreSelection ==
    /\ stage = "cursor saved"
    /\ selection' = restoreCursorSelection(tree, cursor)
    /\ stage' = "cursor restored"
    /\ UNCHANGED <<displayVars, lexVars, fnVars, src, tree, restored, cursor, blockVars, editorVars>>

SpecCursor == InitCursor /\ [][RestoreSelection]_vars

\* the length of the tree's flattened text
TextLength(n) == Len(textContent(n))

\* the point after the last character of the last text node
EndOfText(n) ==
    LET texts == TextNodes(n)
    IN  IF texts = <<>> THEN [node |-> 0, offset |-> 0]
        ELSE [node |-> Len(texts), offset |-> Len(texts[Len(texts)])]

\* C6: an offset beyond the flattened text does not fail and puts that end of the
\* selection at the end of the flattened text
ClampsToEnd ==
    stage = "cursor restored" =>
        /\ cursor.end > TextLength(tree) =>
              selection.rangeCount = 1 /\ selection.end = EndOfText(tree)
        /\ cursor.start > TextLength(tree) =>
              selection.rangeCount = 1 /\ selection.start = EndOfText(tree)

(***************************************************************************)
(* components/MarkdownEditor.  handleChange is debounce(pass, 100), built  *)
(* in the body of the component: every render of the component calls       *)
(* debounce again and gets a closure with a timeoutId of its own.  A timer *)
(* is the closure that set it (the number of the render it comes from) and *)
(* the argument it will hand to the pass.                                  *)
(***************************************************************************)
MaxSignals == 3

\* the arguments handleChange is called with: the change event, or a number
EventArg == [num |-> FALSE, val |-> 0]

NumberArg(n) == [num |-> TRUE, val |-> n]

\* the function debounce returns, called on closure c: clearTimeout(timeoutId)
\* clears the closure's own timer, setTimeout sets its new one
debounce(ts, c, arg) == {t \in ts : t.closure # c} \cup {[closure |-> c, arg |-> arg]}

\* the number of newlines s starts with
LeadLen(s) ==
    IF s = <<>> \/ s[1] # NL THEN 0
    ELSE CHOOSE k \in 1..Len(s) :
             /\ \A i \in 1..k : s[i] = NL
             /\ k = Len(s) \/ s[k + 1] # NL

RECURSIVE StripBlankLines(_)
\* tokens.text.replace(/(\n{2})+$/gm, ""): from each run of newlines, the pairs
\* that leave the run at the end of the text or before another newline
StripBlankLines(s) ==
    IF s = <<>> THEN <<>>
    ELSE IF s[1] # NL THEN <<s[1]>> \o StripBlankLines(Tail(s))
    ELSE LET k == LeadLen(s)
             kept == IF k = Len(s) THEN k % 2
                     ELSE IF k % 2 = 0 THEN 2 ELSE 1
         IN  Repeat(<<NL>>, kept) \o StripBlankLines(From(s, k + 1))

\* the length of the paragraph s starts with: it ends before a blank line, or
\* before the newline that ends the text
ParagraphEnd(s) ==
    CHOOSE n \in 1..Len(s) :
        /\ \A i \in 1..n : s[i] = NL => (i < Len(s) /\ s[i + 1] # NL /\ i < n)
        /\ n = Len(s) \/ (s[n + 1] = NL /\ (n + 1 = Len(s) \/ s[n + 2] = NL))

RECURSIVE blockTokens(_, _)
\* marked's block lexer on text without markdown signs: paragraphs, and a space
\* token for each run of newlines (a single newline joins the token before it)
blockTokens(s, first) ==
    IF s = <<>> THEN <<>>
    ELSE IF s[1] = NL
    THEN LET k == LeadLen(s)
         IN  IF k = 1 /\ ~first THEN blockTokens(From(s, 2), FALSE)
             ELSE <<TokSpace(SubSeq(s, 1, k))>> \o blockTokens(From(s, k + 1), FALSE)
    ELSE LET n == ParagraphEnd(s)
         IN  <<TokParagraph(<<TokText(SubSeq(s, 1, n))>>)>>
                 \o blockTokens(From(s, n + 1), FALSE)

lexer(s) == blockTokens(s, TRUE)

RECURSIVE InsertText(_, _, _, _)
\* the tree with s put into its i-th text node at offset off
InsertText(n, i, off, s) ==
    IF n.nt = "text"
    THEN TextNode(SubSeq(n.text, 1, off) \o s \o From(n.text, off + 1))
    ELSE LET before(k) == Len(Concat([j \in 1..(k - 1) |-> TextNodes(n.kids[j])]))
         IN  [n EXCEPT !.kids =
                 [k \in 1..Len(n.kids) |->
                     IF before(k) < i /\ i <= before(k) + Len(TextNodes(n.kids[k]))
                     THEN InsertText(n.kids[k], i - before(k), off, s)
                     ELSE n.kids[k]]]

Caret(node, offset) ==
    [rangeCount |-> 1, start |-> [node |-> node, offset |-> offset],
     end |-> [node |-> node, offset |-> offset]]

\* the selection is a caret inside a text node
IsCaret(sel) == sel.rangeCount = 1 /\ sel.start = sel.end /\ sel.start.node >= 1

\* "if (typeof cursorOffset !== "number") cursorOffset = 0"
OffsetOf(arg) == IF arg.num THEN arg.val ELSE 0

\* the record without the placeholders taken off
reconcileKeepingPlaceholders(saved, cursorOffset, tokens) ==
    [start |-> saved.start + cursorOffset, end |-> saved.end + cursorOffset]

\* the record handed to setCursor
reconcile(saved, cursorOffset, tokens) ==
    [start |-> saved.start + cursorOffset - ZwpOf(tokens),
     end |-> saved.end + cursorOffset - ZwpOf(tokens)]

\* the markdown the editor is mounted with
EditorSources == { <<"a">>, <<"a", NL, NL, "b">> }

\* the editor once the md effect has rendered its source: the cursor effect ran
\* on mount and put the selection at the start of the editing surface
InitEditor ==
    /\ DisplayIdle
    /\ src \in {lexer(md) : md \in EditorSources}
    /\ tree = parseMarkdownString(src)
    /\ content = tree
    /\ cursor = [start |-> 0, end |-> 0]
    /\ selection = Caret(0, 0)
    /\ restored = NoResult
    /\ stage = "editing"
    /\ gen = 0
    /\ timers = {}
    /\ passes = <<>>
    /\ pending = "none"
    /\ signals = 0
    /\ started = 0
    /\ last = NoPass
    /\ BlockIdle
    /\ LexIdle
    /\ FnIdle

\* a pass that awaits stands aside for promise jobs only
MicrotasksIgnored == TRUE

\* "await marked.parse(mdStr)" resumes in a promise job: timers, events and
\* React's scheduled render are tasks, and no task runs before the jobs are done
MicrotasksDrained == passes = <<>>

\* the selections the model lets the user make: a caret at the start of the
\* text, or the whole text
Places(container) ==
    LET texts == TextNodes(container)
        n == Len(texts)
        first == [node |-> 1, offset |-> 0]
        end == [node |-> n, offset |-> Len(texts[n])]
    IN  IF n = 0 THEN {}
        ELSE {Caret(1, 0), [rangeCount |-> 1, start |-> first, end |-> end]}

MoveCaret ==
    /\ MicrotasksDrained
    /\ selection' \in Places(tree) \ {selection}
    /\ UNCHANGED <<displayVars, lexVars, fnVars, src, tree, restored, stage, cursor, blockVars, editorVars>>

\* the window selection loses its range
SelectionLost ==
    /\ MicrotasksDrained
    /\ selection # NoSelection
    /\ selection' = NoSelection
    /\ UNCHANGED <<displayVars, lexVars, fnVars, src, tree, restored, stage, cursor, blockVars, editorVars>>

\* a character typed at the caret: onChange calls the handleChange of the
\* current render with the event
Input ==
    /\ MicrotasksDrained
    /\ signals < MaxSignals
    /\ IsCaret(selection)
    /\ tree' = InsertText(tree, selection.start.node, selection.start.offset, <<"x">>)
    /\ selection' = Caret(selection.start.node, selection.start.offset + 1)
    /\ timers' = debounce(timers, gen, EventArg)
    /\ signals' = signals + 1
    /\ UNCHANGED <<displayVars, lexVars, fnVars, src, restored, stage, cursor, blockVars,
                   content, gen, passes, pending, started, last>>

\* handleKeyDown, Enter without Shift
Enter ==
    /\ MicrotasksDrained
    /\ signals < MaxSignals
    /\ IsCaret(selection)
    /\ tree' = InsertText(tree, selection.start.node, selection.start.offset,
                          <<NL, NL, ZWSP>>)
    /\ selection' = Caret(selection.start.node, selection.start.offset + 3)
    /\ timers' = debounce(timers, gen, NumberArg(-2))
    /\ signals' = signals + 1
    /\ UNCHANGED <<displayVars, lexVars, fnVars, src, restored, stage, cursor, blockVars,
                   content, gen, passes, pending, started, last>>

\* a timeout expires and calls the pass, which runs up to its await
TimerFires ==
    /\ MicrotasksDrained
    /\ \E t \in timers :
        LET saved == saveCursorSelection(tree, selection)
            tokens == parseHTMLElement(tree)
            pass == [id |-> started + 1, tree |-> tree, sel |-> selection, arg |-> t.arg]
        IN  /\ timers' = timers \ {t}
            /\ started' = started + 1
            /\ IF IsThrow(tokens)
               THEN /\ last' = [pass EXCEPT !.id = started + 1] @@ [outcome |-> "failed"]
                    /\ UNCHANGED passes
               ELSE /\ passes' = Append(passes,
                           pass @@ [saved |-> saved, tokens |-> tokens,
                                    markdown |-> StripBlankLines(tokens.text)])
                    /\ UNCHANGED last
    /\ UNCHANGED <<displayVars, lexVars, fnVars, src, tree, restored, stage, cursor, selection, blockVars,
                   content, gen, pending, signals>>

\* parseMarkdownString resolves and the pass runs to its end: setContent, then
\* setCursor unless reading the saved selection raised
PassResume ==
    \E i \in 1..Len(passes) :
        LET p == passes[i]
            html == parseMarkdownString(lexer(p.markdown))
            done == [id |-> p.id, tree |-> p.tree, sel |-> p.sel, arg |-> p.arg]
        IN  /\ passes' = SubSeq(passes, 1, i - 1) \o From(passes, i + 1)
            /\ content' = html
            /\ IF p.saved = Null
               THEN /\ pending' = IF pending = "both" THEN "both" ELSE "content"
                    /\ last' = done @@ [outcome |-> "failed"]
                    /\ UNCHANGED cursor
               ELSE /\ cursor' = reconcile(p.saved, OffsetOf(p.arg), p.tokens)
                    /\ pending' = "both"
                    /\ last' = done @@ [outcome |-> "committed"]
            /\ UNCHANGED <<displayVars, lexVars, fnVars, src, tree, restored, stage, selection, blockVars,
                           gen, timers, signals, started>>

\* React renders the component again for the updated state: the body runs and
\* builds a new handleChange, the editing surface takes the content, and the
\* cursor effect runs when setCursor was called.  React schedules the render of
\* an update made outside its event handlers, so it is a step of its own.
ReactRender ==
    /\ MicrotasksDrained
    /\ pending # "none"
    /\ gen' = gen + 1
    /\ tree' = content
    /\ selection' = IF pending = "both" THEN restoreCursorSelection(content, cursor)
                    ELSE IF content = tree THEN selection
                    ELSE Caret(0, 0)
    /\ pending' = "none"
    /\ UNCHANGED <<displayVars, lexVars, fnVars, src, restored, stage, cursor, blockVars,
                   content, timers, passes, signals, started, last>>

NextEditor ==
    \/ MoveCaret
    \/ SelectionLost
    \/ Input
    \/ Enter
    \/ TimerFires
    \/ PassResume
    \/ ReactRender

SpecEditor == InitEditor /\ [][NextEditor]_vars

\* C2: each signal cancels the pending timer, so at no time is more than one
\* pass pending (one timer set and not yet expired), however the signals and the
\* renders of the component fall
OnePassPending == Cardinality(timers) <= 1

\* C3: a pass never starts while an earlier pass has restored the tree and not
\* yet committed its content and cursor, and passes commit in the order in which
\* they restored: at most one pass waits for its render, and it started after
\* every pass that finished
NoOverlappingPasses ==
    /\ Len(passes) <= 1
    /\ \A i \in 1..Len(passes) : passes[i].id > last.id

\* a later pass waits for its render while another timer is still pending
LaterPassAwaitsRender ==
    /\ Len(passes) = 1
    /\ passes[1].id >= 2
    /\ timers # {}

\* C4: after a completed pass the cursor record is the selection saved from the
\* tree the pass restored, plus the insertion length the handler was called with
\* (0 when it was called with an event), minus the placeholder count
\* parseHTMLElement returned for that tree
CursorReconciled ==
    last.outcome = "committed" =>
        LET saved == saveCursorSelection(last.tree, last.sel)
            placeholderCount == parseHTMLElement(last.tree).zwpAmount
            delta == IF last.arg.num THEN last.arg.val ELSE 0
        IN  /\ cursor.start = saved.start + delta - placeholderCount
            /\ cursor.end = saved.end + delta - placeholderCount

\* a pass started by Enter completed, and it had placeholders to take off
ReconciledAfterEnter ==
    /\ last.outcome = "committed"
    /\ last.arg = NumberArg(-2)
    /\ parseHTMLElement(last.tree).zwpAmount >= 1
    /\ cursor.start >= 1

\* C5: a pass that ran while the selection had no range completed, and the
\* cursor record is {start: 0, end: 0}
FallsBackToOrigin ==
    (last.outcome # "none" /\ last.sel = NoSelection) =>
        /\ last.outcome = "committed"
        /\ cursor = [start |-> 0, end |-> 0]

(***************************************************************************)
(* restorer.blockquote applied to a block-quote of the visual tree.        *)
(***************************************************************************)
MaxQuoteKids == 2

Blockquote(kids) ==
    Elem("blockquote", {"md-e", "md-b"}, {"class", "data-type", "data-sign"},
         "blockquote", <<">">>, kids)

\* what a block-quote of the editing surface holds: paragraphs, the element of
\* a blank line, a nested block-quote, an element the renderer did not write
QuoteChildren ==
    { Paragraph(<<InlineText(<<"a">>)>>),
      Paragraph(<<InlineText(<<ZWSP, "a">>)>>),
      Paragraph(<<InlineText(<<"a", ZWSP>>)>>),
      Paragraph(<<InlineText(<<"a">>), renderer_br, InlineText(<<"b">>)>>),
      Paragraph(<<>>),
      Paragraph(<<InlineLoneBr>>),
      renderer_space(TokSpace(BlankLine))[1],
      Blockquote(<<Paragraph(<<InlineText(<<"a">>)>>)>>),
      Elem("div", {}, {}, "", Undefined, <<TextNode(<<"d">>)>>) }

Quotes ==
    {Blockquote(kids) : kids \in UNION {[1..n -> QuoteChildren] : n \in 0..MaxQuoteKids}}

InitQuote ==
    /\ DisplayIdle
    /\ block \in Quotes
    /\ frags = <<>>
    /\ blockOut = NoResult
    /\ bstage = "edited"
    /\ RoundTripIdle
    /\ CursorIdle
    /\ EditorIdle
    /\ LexIdle
    /\ FnIdle

RestoreQuote ==
    /\ bstage = "edited"
    /\ block.type = "blockquote"
    /\ blockOut' = restorer_blockquote(block)
    /\ bstage' = "restored"
    /\ UNCHANGED <<displayVars, lexVars, fnVars, block, frags, rtVars, cursorVars, editorVars>>

SpecQuote == InitQuote /\ [][RestoreQuote]_vars

\* the block is a restored block-quote
QuoteRestored == bstage = "restored" /\ block.type = "blockquote"

HasNestedQuote(b) == \E i \in 1..Len(children(b)) : children(b)[i].type = "blockquote"

\* C12: restoring a block-quote that has a nested block-quote child completes,
\* and the nested quote's restored text comes out with every line behind the
\* outer quote marker
NestedQuoteRestored ==
    (QuoteRestored /\ HasNestedQuote(block)) =>
        /\ ~IsThrow(blockOut)
        /\ Len(children(block)) = 1 =>
              blockOut.text =
                  <<">", SP>> \o QuoteLines(restorer_blockquote(children(block)[1]).text)

\* C13: for every block-quote, restorer.blockquote returns {text: undefined,
\* zwpAmount: 0}: an early return runs before the string-building pipeline
QuoteReturnsUndefined ==
    QuoteRestored =>
        /\ ~IsThrow(blockOut)
        /\ "text" \notin DOMAIN blockOut
        /\ blockOut.zwpAmount = 0

\* the child raises in the .map callback of restorer.blockquote
QuoteChildRaises(child) ==
    \/ child.type = "blockquote"
    \/ child.type = "paragraph" /\ IsThrow(parseInlineElement(child))

\* C13, amended: the pipeline is live.  A block-quote with no nested block-quote
\* returns the text the pipeline built: it carries no trailing white space, it
\* starts with the quote marker when the first child is a paragraph or a blank
\* line, and it holds what the paragraphs' inline restoration returned; a single
\* paragraph's placeholder count is returned as zwpAmount, and 0 when there is
\* no paragraph.  With a nested block-quote child the call raises.
QuoteTextBuilt ==
    QuoteRestored =>
        LET kids == children(block)
            paras == SelectSeq(kids, LAMBDA k : k.type = "paragraph")
        IN  IF \E i \in 1..Len(kids) : QuoteChildRaises(kids[i])
            THEN IsThrow(blockOut)
            ELSE /\ "text" \in DOMAIN blockOut
                 /\ blockOut.text = trimEnd(blockOut.text)
                 /\ (kids # <<>> /\ kids[1].type \in {"paragraph", "space"}) =>
                        (blockOut.text # <<>> /\ blockOut.text[1] = ">")
                 /\ Len(blockOut.text) >=
                        SumSeq([i \in 1..Len(paras) |->
                                   Len(trimEnd(parseInlineElement(paras[i]).text))])
                 /\ Len(paras) = 1 => blockOut.zwpAmount = ZwpOf(parseInlineElement(paras[1]))
                 /\ Len(paras) = 0 => blockOut.zwpAmount = 0

\* a quote of two paragraphs, one of them with a placeholder to strip, restored
\* to two marked lines
QuoteOfTwoLinesRestored ==
    /\ QuoteRestored
    /\ block = Blockquote(<<Paragraph(<<InlineText(<<"a">>)>>),
                            Paragraph(<<InlineText(<<ZWSP, "a">>)>>)>>)
    /\ blockOut = [text |-> <<">", SP, "a", NL, ">", SP, "a">>, zwpAmount |-> 1]

\* C14: for a block-quote whose children are paragraphs p1..pk, the returned
\* placeholder count is the sum of the counts the inline restorer reports for
\* p1..pk
QuotePlaceholdersSummed ==
    LET kids == children(block)
    IN  (/\ QuoteRestored
         /\ ~IsThrow(blockOut)
         /\ \A i \in 1..Len(kids) : kids[i].type = "paragraph") =>
            blockOut.zwpAmount =
                SumSeq([i \in 1..Len(kids) |-> ZwpOf(parseInlineElement(kids[i]))])

(***************************************************************************)
(* renderer/Tokenizer.js: the block-quote tokenizer, and the rules it      *)
(* tests each line with.  A line is a string without a newline.            *)
(***************************************************************************)
TAB == "\t"

\* the position of the quote marker behind at most three spaces, or 0
MarkerPos(line) ==
    LET k == Len(line) - Len(DropTrail([i \in 1..Len(line) |-> line[Len(line) + 1 - i]], {SP}))
    IN  IF k <= 3 /\ k < Len(line) /\ line[k + 1] = ">" THEN k + 1 ELSE 0

\* this.rules.other.blockquoteStart = /^ {0,3}>/
blockquoteStart(line) == MarkerPos(line) > 0

\* rules.other.blockquoteLineIsEmpty = /^ {0,3}>[\t ]*$/
blockquoteLineIsEmpty(line) ==
    /\ MarkerPos(line) > 0
    /\ \A i \in (MarkerPos(line) + 1)..Len(line) : line[i] \in {TAB, SP}

\* rules.other.blockquoteLineHasZeroWideSpace = /^ {0,3}> ?[\u200b]*$/
blockquoteLineHasZeroWideSpace(line) ==
    /\ MarkerPos(line) > 0
    /\ LET rest == From(line, MarkerPos(line) + 1)
           tail == IF rest # <<>> /\ rest[1] = SP THEN Tail(rest) ELSE rest
       IN  \A i \in 1..Len(tail) : tail[i] = ZWSP

\* array[j] for a 0-based index j: undefined, read as a string, outside the array
ArrayAt(array, j) == IF j >= 0 /\ j < Len(array) THEN array[j + 1] ELSE Undefined

\* array[j] is a non-empty string
Truthy(array, j) == j >= 0 /\ j < Len(array) /\ array[j + 1] # <<>>

\* the line added to currentLines[i - 1] behind a hard line-break, or pushed
MergeOrPush(currentLines, i, line) ==
    IF ~blockquoteLineIsEmpty(ArrayAt(currentLines, i - 1)) /\ Truthy(currentLines, i - 1)
    THEN [currentLines EXCEPT ![i] = @ \o <<BSL, NL>> \o line]
    ELSE Append(currentLines, line)

RECURSIVE ConsumeRun(_, _, _, _)
\* the for loop over lines, at index i (0-based): the lines it emitted and the
\* index it stopped at
ConsumeRun(lines, i, currentLines, inBlockquote) ==
    IF i >= Len(lines) THEN [currentLines |-> currentLines, i |-> i]
    ELSE LET line == lines[i + 1]
         IN  IF blockquoteStart(line)
             THEN ConsumeRun(lines, i + 1,
                             IF blockquoteLineIsEmpty(line) THEN Append(currentLines, <<">", SP>>)
                             ELSE IF blockquoteLineHasZeroWideSpace(line)
                             THEN Append(currentLines, <<">", SP, "$", ZWSP, "$">>)
                             ELSE MergeOrPush(currentLines, i, line),
                             TRUE)
             ELSE IF ~inBlockquote
             THEN ConsumeRun(lines, i + 1, Append(currentLines, line), FALSE)
             ELSE [currentLines |-> currentLines, i |-> i]

\* the first line of s
FirstLine(s) ==
    LET at == IndexOf(s, <<NL>>, 1) IN IF at = 0 THEN s ELSE SubSeq(s, 1, at - 1)

RECURSIVE CapLines(_, _, _)
\* this.rules.block.blockquote, marked's /^( {0,3}> ?(paragraph|[^\n]*)(?:\n|$))+/,
\* on the lines of the source: how many lines, from line i on, the match takes.
\* A line without a marker continues the paragraph of the line before it.
CapLines(lines, i, inParagraph) ==
    IF i > Len(lines) THEN 0
    ELSE IF blockquoteStart(lines[i])
    THEN LET rest == From(lines[i], MarkerPos(lines[i]) + 1)
             quoted == IF rest # <<>> /\ rest[1] = SP THEN Tail(rest) ELSE rest
         IN  1 + CapLines(lines, i + 1, quoted # <<>>)
    ELSE IF inParagraph /\ DropTrail(lines[i], {SP}) # <<>>
    THEN 1 + CapLines(lines, i + 1, TRUE)
    ELSE 0

\* the rule taking the first line whatever it starts with
BlockquoteCapAnyLine(source) ==
    LET lines == split(source, <<NL>>)
    IN  SubSeq(lines, 1, 1 + CapLines(lines, 2, TRUE))

\* rtrim(cap[0], "\n").split("\n"), or no line when the rule does not match
BlockquoteCap(source) ==
    LET lines == split(source, <<NL>>)
    IN  SubSeq(lines, 1, CapLines(lines, 1, FALSE))

RECURSIVE StripMarkers(_, _)
\* .replace(this.rules.other.blockquoteSetextReplace2, ""), marked's
\* /^ {0,3}>[ \t]?/gm: the marker at the start of every line, from position pos
\* on.  (blockquoteSetextReplace rewrites lines of = or - only.)
StripMarkers(s, pos) ==
    IF pos > Len(s) THEN <<>>
    ELSE LET line == FirstLine(From(s, pos))
             m == MarkerPos(line)
             cut == IF m = 0 THEN 0
                    ELSE IF m < Len(line) /\ line[m + 1] \in {SP, TAB} THEN m + 1 ELSE m
             next == pos + Len(line)
         IN  From(line, cut + 1)
                 \o (IF next > Len(s) THEN <<>> ELSE <<NL>> \o StripMarkers(s, next + 1))

\* the characters a backslash escapes, of those the model writes
Escapable == {BSL, ">", "$", "#", "*", "_", BT, "[", "]", "(", ")", "~", "!"}

\* the length of the text token s starts with: the text rule takes one
\* character and then all up to the next backslash
TextRun(s) ==
    CHOOSE n \in 1..Len(s) :
        /\ \A i \in 2..n : s[i] # BSL
        /\ n = Len(s) \/ s[n + 1] = BSL

RECURSIVE InlineFrom(_, _)
\* marked's inline lexer on text without emphasis, code or links: an escape
\* token for a backslash before a punctuation character, a br token for a
\* backslash before a newline that more content follows, and text, which
\* joins the text token before it
InlineFrom(s, tokens) ==
    LET OnText(t) ==
            InlineFrom(From(s, Len(t) + 1),
                       IF tokens # <<>> /\ tokens[Len(tokens)].type = "text"
                       THEN [tokens EXCEPT ![Len(tokens)] = TokText(@.text \o t)]
                       ELSE Append(tokens, TokText(t)))
    IN  IF s = <<>> THEN tokens
        ELSE IF s[1] = BSL /\ Len(s) >= 2 /\ s[2] \in Escapable
        THEN InlineFrom(From(s, 3), Append(tokens, TokEscape(s[2])))
        ELSE IF s[1] = BSL /\ Len(s) >= 2 /\ s[2] = NL /\ ~IsBlank(From(s, 3))
        THEN InlineFrom(From(s, 3), Append(tokens, TokBr))
        ELSE OnText(SubSeq(s, 1, TextRun(s)))

inlineTokens(s) == InlineFrom(s, <<>>)

\* the length of the paragraph s starts with inside a quote: it ends before a
\* blank line, before a line that starts a block-quote, or with the text
QuoteParagraphEnd(s) ==
    CHOOSE n \in 1..Len(s) :
        /\ \A i \in 1..n : s[i] = NL =>
               (i < n /\ s[i + 1] # NL /\ ~blockquoteStart(FirstLine(From(s, i + 1))))
        /\ \/ n = Len(s)
           \/ /\ s[n + 1] = NL
              /\ \/ n + 1 = Len(s)
                 \/ s[n + 2] = NL
                 \/ blockquoteStart(FirstLine(From(s, n + 2)))

\* what tokenizer.blockquote returns when the rule does not match: undefined
Unmatched == [type |-> "undefined"]

RECURSIVE quoteTokens(_, _, _)
RECURSIVE QuoteLoop(_, _, _, _)
RECURSIVE tokenizer_blockquote(_)

\* this.lexer.blockTokens(currentText, tokens, true): marked's block lexer on the
\* text of a quote, which holds blank lines, nested block-quotes and paragraphs.
\* A single newline joins the raw of the token before it; a paragraph found
\* first joins the paragraph the token list ends with (lastParagraphClipped).
quoteTokens(s, tokens, lastParagraphClipped) ==
    LET OnSpace(k) ==
            quoteTokens(From(s, k + 1),
                        IF k = 1 /\ tokens # <<>>
                        THEN [tokens EXCEPT ![Len(tokens)].raw = @ \o <<NL>>]
                        ELSE Append(tokens, TokSpace(SubSeq(s, 1, k))),
                        lastParagraphClipped)
        OnQuote(token) ==
            quoteTokens(From(s, Len(token.raw) + 1), Append(tokens, token),
                        lastParagraphClipped)
        OnParagraph(p) ==
            quoteTokens(From(s, Len(p) + 1),
                        IF lastParagraphClipped /\ tokens # <<>>
                           /\ tokens[Len(tokens)].type = "paragraph"
                        THEN [tokens EXCEPT ![Len(tokens)] =
                                 [type |-> "paragraph",
                                  raw |-> @.raw \o <<NL>> \o p,
                                  text |-> @.text \o <<NL>> \o p,
                                  tokens |-> inlineTokens(@.text \o <<NL>> \o p)]]
                        ELSE Append(tokens, TokParagraph(inlineTokens(p))),
                        FALSE)
    IN  IF s = <<>> THEN tokens
        ELSE IF s[1] = NL THEN OnSpace(LeadLen(s))
        ELSE IF blockquoteStart(FirstLine(s)) THEN OnQuote(tokenizer_blockquote(s))
        ELSE OnParagraph(SubSeq(s, 1, QuoteParagraphEnd(s)))

\* the while loop: one run of lines per turn, until no line is left
QuoteLoop(lines, raw, text, tokens) ==
    LET Replaced(raw2, text2, tokens2, oldToken, newToken) ==
            [raw |-> SubSeq(raw2, 1, Len(raw2) - Len(oldToken.raw)) \o newToken.raw,
             text |-> SubSeq(text2, 1, Len(text2) - Len(oldToken.text)) \o newToken.text,
             tokens |-> [tokens2 EXCEPT ![Len(tokens2)] = newToken]]
        OnTokens(rest, raw2, text2, tokens2) ==
            IF rest = <<>> \/ (tokens2 # <<>> /\ tokens2[Len(tokens2)].type = "code")
            THEN [raw |-> raw2, text |-> text2, tokens |-> tokens2]
            ELSE IF tokens2 # <<>> /\ tokens2[Len(tokens2)].type = "blockquote"
            THEN Replaced(raw2, text2, tokens2, tokens2[Len(tokens2)],
                     tokenizer_blockquote(tokens2[Len(tokens2)].raw \o <<NL>>
                                          \o JoinWith(rest, <<NL>>)))
            ELSE QuoteLoop(rest, raw2, text2, tokens2)
        Stripped(rest, currentRaw, currentText) ==
            OnTokens(rest,
                  IF raw # <<>> THEN raw \o <<NL>> \o currentRaw ELSE currentRaw,
                  IF text # <<>> THEN text \o <<NL>> \o currentText ELSE currentText,
                  quoteTokens(currentText, tokens, TRUE))
        Joined(rest, currentRaw) == Stripped(rest, currentRaw, StripMarkers(currentRaw, 1))
        Consumed(run) == Joined(From(lines, run.i + 1), JoinWith(run.currentLines, <<NL>>))
    IN  Consumed(ConsumeRun(lines, 0, <<>>, FALSE))

tokenizer_blockquote(source) ==
    LET Token(r) ==
            [type |-> "blockquote", raw |-> r.raw, tokens |-> r.tokens, text |-> r.text]
        Matched(lines) ==
            IF lines = <<>> THEN Unmatched ELSE Token(QuoteLoop(lines, <<>>, <<>>, <<>>))
    IN  Matched(BlockquoteCap(source))

(***************************************************************************)
(* The lexer offers a source to tokenizer.blockquote.                      *)
(***************************************************************************)
MaxLines == 3

\* content lines, an empty quoted line, a quoted placeholder, a line without
\* marker, a blank line and a line of a nested quote
SourceLines ==
    { <<">", " ", "a">>, <<">", " ", "b">>, <<">">>, <<">", " ", ZWSP>>,
      <<"c">>, <<>>, <<">", " ", ">", " ", "a">> }

TokenizerSources ==
    { JoinWith(ls, <<NL>>) : ls \in UNION {[1..n -> SourceLines] : n \in 1..MaxLines} }

InitTokenizer ==
    /\ DisplayIdle
    /\ lexSrc \in TokenizerSources
    /\ thisLexer \in {[state |-> [top |-> b], tokens |-> <<>>] : b \in BOOLEAN}
    /\ quoteTok = NotCalled
    /\ RoundTripIdle
    /\ BlockIdle
    /\ CursorIdle
    /\ EditorIdle
    /\ FnIdle

\* the lexer's step for the extension: a token that is returned is added to the
\* token list and its raw length is cut off the source; undefined changes
\* nothing.  The tokenizer sets state.top for the nested lexing and puts the
\* saved value back before it returns.
Tokenize ==
    /\ quoteTok = NotCalled
    /\ LET token == tokenizer_blockquote(lexSrc)
       IN  /\ quoteTok' = token
           /\ IF token = Unmatched
              THEN UNCHANGED <<thisLexer, lexSrc>>
              ELSE /\ thisLexer' = [thisLexer EXCEPT !.tokens = Append(@, token)]
                   /\ lexSrc' = From(lexSrc, Len(token.raw) + 1)
    /\ UNCHANGED <<displayVars, fnVars, rtVars, blockVars, cursorVars, editorVars>>

SpecTokenizer == InitTokenizer /\ [][Tokenize]_vars

\* C15: a source that does not start with the block-quote marker makes
\* tokenizer.blockquote return undefined, without an exception, and leaves the
\* lexer's state.top, its token list and the source as they were
NonMatchFallsThrough ==
    [][(quoteTok = NotCalled /\ ~blockquoteStart(FirstLine(lexSrc))) =>
          /\ quoteTok' = Unmatched
          /\ thisLexer' = thisLexer
          /\ lexSrc' = lexSrc]_vars

\* the tokenizer was offered a source that starts with a line without marker
NonMatchOffered ==
    /\ quoteTok = Unmatched
    /\ lexSrc # <<>>
    /\ ~blockquoteStart(FirstLine(lexSrc))
    /\ thisLexer.tokens = <<>>

RECURSIVE ClaimedLines(_, _, _)
\* the logical lines the merging rule describes for marker-bearing lines: an
\* empty quoted line stands alone as "> ", a line with content joins the line
\* emitted before it unless that line is an empty one
ClaimedLines(lines, i, emitted) ==
    IF i > Len(lines) THEN emitted
    ELSE IF blockquoteLineIsEmpty(lines[i])
    THEN ClaimedLines(lines, i + 1, Append(emitted, <<">", SP>>))
    ELSE IF emitted # <<>> /\ ~blockquoteLineIsEmpty(emitted[Len(emitted)])
    THEN ClaimedLines(lines, i + 1,
             [emitted EXCEPT ![Len(emitted)] = @ \o <<BSL, NL>> \o lines[i]])
    ELSE ClaimedLines(lines, i + 1, Append(emitted, lines[i]))

\* every line bears the marker and none holds a placeholder
ContentRun(source) ==
    LET lines == split(source, <<NL>>)
    IN  /\ source # <<>>
        /\ \A i \in 1..Len(lines) :
              blockquoteStart(lines[i]) /\ ~blockquoteLineHasZeroWideSpace(lines[i])

\* C16: in a run of marker-bearing lines every content line that follows a
\* non-empty emitted line is merged into it by backslash and newline, so that k
\* consecutive content lines give one logical line for every k >= 2; an empty
\* quoted line becomes "> " and the content line after it starts a new line
RunMergedIntoOneLine ==
    [][(quoteTok = NotCalled /\ ContentRun(lexSrc)) =>
          quoteTok'.raw = JoinWith(ClaimedLines(split(lexSrc, <<NL>>), 1, <<>>), <<NL>>)]_vars

(***************************************************************************)
(* StringUtils: mergeQuoteBlocks applied to a list of lines.               *)
(***************************************************************************)
RECURSIVE trimStart(_)
\* String.prototype.trimStart
trimStart(s) == IF s # <<>> /\ s[1] \in {SP, TAB, NL} THEN trimStart(Tail(s)) ELSE s

\* the line-break token "##br##"
BrToken == <<"#", "#", "b", "r", "#", "#">>

RECURSIVE MergeFrom(_, _, _)
\* the for...of loop over lines, from the line at position i on
MergeFrom(lines, i, result) ==
    IF i > Len(lines) THEN result
    ELSE LET line == lines[i]
             isEmpty == blockquoteLineIsEmpty(line)
             lastLine == result[Len(result)]
         IN  IF isEmpty THEN MergeFrom(lines, i + 1, Append(result, line))
             ELSE IF Len(result) > 0 /\ ~blockquoteLineIsEmpty(lastLine)
             THEN LET lastContent == From(lastLine, 2)
                      currentContent == trimStart(From(line, 2))
                  IN  MergeFrom(lines, i + 1,
                          [result EXCEPT ![Len(result)] =
                              <<">">> \o lastContent \o BrToken \o currentContent])
             ELSE MergeFrom(lines, i + 1, Append(result, line))

mergeQuoteBlocks(lines) == MergeFrom(lines, 1, <<>>)

MaxMergeLines == 3

\* block-quote lines: content behind the marker with and without a space,
\* empty quote lines, and lines whose marker is indented
MergeLines ==
    { <<">", "a">>, <<">", " ", "b">>, <<">">>, <<">", " ">>,
      <<" ", ">", " ", "b">>, <<" ", ">">> }

InitMerge ==
    /\ DisplayIdle
    /\ argument \in UNION {[1..n -> MergeLines] : n \in 0..MaxMergeLines}
    /\ returned = <<>>
    /\ called = "none"
    /\ RoundTripIdle
    /\ BlockIdle
    /\ CursorIdle
    /\ EditorIdle
    /\ LexIdle

\* the call builds a new array and leaves the one it was given as it is
CallMerge ==
    /\ called = "none"
    /\ returned' = mergeQuoteBlocks(argument)
    /\ called' = "mergeQuoteBlocks"
    /\ UNCHANGED <<displayVars, argument, lexVars, rtVars, blockVars, cursorVars, editorVars>>

SpecMerge == InitMerge /\ [][CallMerge]_vars

\* a quote line without its marker and the white space behind it
QuoteContent(line) == trimStart(From(line, MarkerPos(line) + 1))

RECURSIVE ClaimedMerge(_, _, _)
\* the entries as described: an empty quote line is an entry of its own, a
\* content line joins the entry before it unless that entry is an empty line
ClaimedMerge(lines, i, result) ==
    IF i > Len(lines) THEN result
    ELSE IF blockquoteLineIsEmpty(lines[i])
    THEN ClaimedMerge(lines, i + 1, Append(result, lines[i]))
    ELSE IF result # <<>> /\ ~blockquoteLineIsEmpty(result[Len(result)])
    THEN ClaimedMerge(lines, i + 1,
             [result EXCEPT ![Len(result)] = @ \o BrToken \o QuoteContent(lines[i])])
    ELSE ClaimedMerge(lines, i + 1, Append(result, lines[i]))

\* C17: mergeQuoteBlocks keeps every empty quote line as an entry of its own,
\* joins each run of consecutive content lines into one entry by "##br##", each
\* continuation without its marker and leading white space, starts a new entry
\* for a content line after an empty line, and leaves its input as it was
QuoteLinesMerged ==
    [][called = "none" =>
          /\ returned' = ClaimedMerge(argument, 1, <<>>)
          /\ argument' = argument]_vars

(***************************************************************************)
(* The renderer applied to one inline token of the parser.                 *)
(***************************************************************************)
MaxSignText == 2

\* the literal texts of a token, and the targets of a link
SignTexts == UNION {[1..n -> {"a", "b", "u"}] : n \in 1..MaxSignText}

\* strong, em, del, codespan and link tokens as marked's inline lexer yields them
SignedTokens ==
    {TokEnclosed("strong", <<"*", "*">>, <<TokText(t)>>) : t \in SignTexts}
    \cup {TokEnclosed("strong", <<"_", "_">>, <<TokText(t)>>) : t \in SignTexts}
    \cup {TokEnclosed("em", <<"*">>, <<TokText(t)>>) : t \in SignTexts}
    \cup {TokEnclosed("em", <<"_">>, <<TokText(t)>>) : t \in SignTexts}
    \cup {TokEnclosed("del", <<"~", "~">>, <<TokText(t)>>) : t \in SignTexts}
    \cup {TokCodespan(t) : t \in SignTexts}
    \cup {TokLink(<<TokText(t)>>, href) : t \in SignTexts, href \in SignTexts}

InitSign ==
    /\ DisplayIdle
    /\ argument \in SignedTokens
    /\ returned = <<>>
    /\ called = "none"
    /\ RoundTripIdle
    /\ BlockIdle
    /\ CursorIdle
    /\ EditorIdle
    /\ LexIdle

\* the parser hands the token to the renderer method of its type
RenderSigned ==
    /\ called = "none"
    /\ returned' = RenderInline(argument)
    /\ called' = "renderer"
    /\ UNCHANGED <<displayVars, argument, lexVars, rtVars, blockVars, cursorVars, editorVars>>

SpecSign == InitSign /\ [][RenderSigned]_vars

\* C18: the prefix sign rendered for a strong, em, codespan, del or link token,
\* followed by the token's text and the rendered suffix sign, is the token's raw
SignsPreserved ==
    called = "renderer" =>
        textContent(returned.kids[1]) \o argument.text \o textContent(returned.kids[3])
            = argument.raw

(***************************************************************************)
(* A heading: rendered from its token, then restored from its element.     *)
(***************************************************************************)
LowerCase == <<"a", "b", "h", "i", "u">>
UpperCase == <<"A", "B", "H", "I", "U">>

\* String.prototype.toUpperCase on one character
toUpperCase(c) ==
    IF \E i \in 1..Len(LowerCase) : LowerCase[i] = c
    THEN UpperCase[CHOOSE i \in 1..Len(LowerCase) : LowerCase[i] = c]
    ELSE c

\* \w
IsWordChar(c) ==
    \/ \E i \in 1..Len(LowerCase) : c \in {LowerCase[i], UpperCase[i]}
    \/ c \in {"0", "1", "_"}

\* \s
IsWhiteSpace(c) == c \in {SP, TAB, NL}

\* .replace(/(?:^\w|[A-Z]|\b\w)/g, (match, index) => index === 0 ? match :
\* match.toUpperCase()): the match at index 0 stays as it is, a capital stays a
\* capital, and a word character behind a non-word character is capitalized
CapitalizeWords(s) ==
    [p \in 1..Len(s) |->
        IF p > 1 /\ IsWordChar(s[p]) /\ ~IsWordChar(s[p - 1]) THEN toUpperCase(s[p])
        ELSE s[p]]

\* .replace(/\s+/g, "")
RemoveWhiteSpace(s) == SelectSeq(s, LAMBDA c : ~IsWhiteSpace(c))

spacesSeparatedToHump(spacesSeparatedName) ==
    RemoveWhiteSpace(CapitalizeWords(spacesSeparatedName))

\* tokens.reduce((acc, item) => acc + item.text, "")
escapedText(tokens) ==
    Concat([i \in 1..Len(tokens) |->
               IF "text" \in DOMAIN tokens[i] THEN tokens[i].text ELSE Undefined])

\* the data-anchor attribute renderer.heading writes
HeadingAnchor(token) == spacesSeparatedToHump(escapedText(token.tokens))

HeadingWords == { <<"a">>, <<"b">>, <<"H", "i">> }

\* the inline tokens of a heading of one or two words
HeadingContents ==
    {<<TokText(w)>> : w \in HeadingWords}
    \cup {<<TokText(w \o <<SP>> \o v)>> : w \in HeadingWords, v \in HeadingWords}
    \cup {<<TokText(w \o <<SP>>), TokEnclosed("em", <<"*">>, <<TokText(v)>>)>> :
             w \in HeadingWords, v \in HeadingWords}

InitHeading ==
    /\ DisplayIdle
    /\ argument \in {TokHeading(depth, tokens, <<>>) :
                        depth \in Depths, tokens \in HeadingContents}
    /\ returned = <<>>
    /\ called = "none"
    /\ RoundTripIdle
    /\ BlockIdle
    /\ CursorIdle
    /\ EditorIdle
    /\ LexIdle

RenderHeading ==
    /\ called = "none"
    /\ returned' = [element |-> renderer_heading(argument)[1],
                    anchor |-> HeadingAnchor(argument)]
    /\ called' = "renderer.heading"
    /\ UNCHANGED <<displayVars, argument, lexVars, rtVars, blockVars, cursorVars, editorVars>>

RestoreHeading ==
    /\ called = "renderer.heading"
    /\ returned' = [element |-> returned.element, anchor |-> returned.anchor,
                    restored |-> restorer_heading(returned.element)]
    /\ called' = "restorer.heading"
    /\ UNCHANGED <<displayVars, argument, lexVars, rtVars, blockVars, cursorVars, editorVars>>

NextHeading == RenderHeading \/ RestoreHeading

SpecHeading == InitHeading /\ [][NextHeading]_vars

\* C19: restorer.heading returns the stored sign attribute, the run of # and one
\* space the renderer wrote, followed at once by the flattened text of the block
HeadingSignThenText ==
    called = "restorer.heading" =>
        returned.restored.text = returned.element.sign \o textContent(returned.element)

toLowerCase(c) ==
    IF \E i \in 1..Len(UpperCase) : UpperCase[i] = c
    THEN LowerCase[CHOOSE i \in 1..Len(UpperCase) : UpperCase[i] = c]
    ELSE c

\* the words of s: its pieces between white space
Words(s) == SelectSeq(split(s, <<SP>>), LAMBDA w : w # <<>>)

\* camel case: the first word begins in lower case, every later word with a
\* capital, and no white space is left
CamelCase(s) ==
    Concat([i \in 1..Len(Words(s)) |->
               LET w == Words(s)[i]
               IN  <<IF i = 1 THEN toLowerCase(w[1]) ELSE toUpperCase(w[1])>> \o Tail(w)])

\* C20: the anchor of a heading is the camel-casing of its flattened literal text
AnchorIsCamelCase ==
    called \in {"renderer.heading", "restorer.heading"} =>
        returned.anchor = CamelCase(escapedText(argument.tokens))

(***************************************************************************)
(* A pass over an unedited tree: the document is rendered, restored, and   *)
(* the restored text rendered again as handleChange does.                  *)
(***************************************************************************)
MaxDocLines == 3

\* lines of paragraphs, blank lines, quoted lines and an empty quoted line
DocLines ==
    { <<"a">>, <<"b">>, <<">", " ", "a">>, <<">", " ", "b">>, <<">">>, <<>> }

DocSources ==
    { JoinWith(ls, <<NL>>) : ls \in UNION {[1..n -> DocLines] : n \in 1..MaxDocLines} }

\* marked.parse(mdStr): the block lexer with the tokenizer extension, then the
\* parser with the renderer
renderMarkdown(mdStr) == parseMarkdownString(quoteTokens(mdStr, <<>>, FALSE))

InitPass ==
    /\ DisplayIdle
    /\ argument \in DocSources
    /\ returned = <<>>
    /\ called = "none"
    /\ src = <<>>
    /\ tree = Root(<<>>)
    /\ restored = NoResult
    /\ stage = "source"
    /\ BlockIdle
    /\ CursorIdle
    /\ EditorIdle
    /\ LexIdle

FirstRender ==
    /\ stage = "source"
    /\ src' = quoteTokens(argument, <<>>, FALSE)
    /\ tree' = renderMarkdown(argument)
    /\ stage' = "rendered"
    /\ UNCHANGED <<displayVars, restored, fnVars, lexVars, blockVars, cursorVars, editorVars>>

RestoreUnedited ==
    /\ stage = "rendered"
    /\ restored' = parseHTMLElement(tree)
    /\ stage' = "restored"
    /\ UNCHANGED <<displayVars, src, tree, fnVars, lexVars, blockVars, cursorVars, editorVars>>

\* handleChange: the restored text without its trailing blank lines is rendered
SecondRender ==
    /\ stage = "restored"
    /\ returned' = IF IsThrow(restored) THEN Threw
                   ELSE renderMarkdown(StripBlankLines(restored.text))
    /\ called' = "parseMarkdownString"
    /\ stage' = "rerendered"
    /\ UNCHANGED <<displayVars, src, tree, restored, argument, lexVars, blockVars, cursorVars, editorVars>>

NextPass == FirstRender \/ RestoreUnedited \/ SecondRender

SpecPass == InitPass /\ [][NextPass]_vars

RECURSIVE Shape(_)
\* the kinds of a tree's nodes, in order, at every level
Shape(n) ==
    IF n.nt = "text" THEN <<"text">>
    ELSE <<n.tag, n.type, [i \in 1..Len(n.kids) |-> Shape(n.kids[i])]>>

\* C21: the tree rendered from the restored text of an unedited rendering has
\* the node kinds of the first rendering, in the same order at every level
RenderingIdempotent ==
    stage = "rerendered" =>
        /\ ~IsThrow(returned)
        /\ Shape(returned) = Shape(tree)

\* the children of the block-quote are paragraphs and blank lines only
PlainQuote(b) ==
    \A i \in 1..Len(children(b)) : children(b)[i].type \in {"paragraph", "space"}

\* C22: the text restored for a block-quote of paragraphs and blank lines has
\* the quote marker at the start of every physical line, hard breaks and
\* wrapped lines included, and does not end in a line that is a bare marker: a
\* dangling marker was given a space and a placeholder before the trim
MarkerOnEveryLine ==
    (QuoteRestored /\ PlainQuote(block) /\ ~IsThrow(blockOut) /\ blockOut.text # <<>>) =>
        LET lines == split(blockOut.text, <<NL>>)
        IN  /\ \A i \in 1..Len(lines) : lines[i] # <<>> /\ lines[i][1] = ">"
            /\ Len(lines) >= 2 => ~blockquoteLineIsEmpty(lines[Len(lines)])

(***************************************************************************)
(* The outer loop of tokenizer.blockquote, one turn at a time.  The token  *)
(* the nested block lexer leaves last decides how a turn ends.  marked's   *)
(* list and code tokenizers are not part of the repository: that the last  *)
(* token is a list or a code block, and how many of the remaining lines a  *)
(* re-parsed list takes, is a choice over every outcome they can give.     *)
(***************************************************************************)
MaxLoopLines == 3

\* a quoted line, a quoted list item, a line without marker, a line of a
\* nested quote and a blank line
LoopLines ==
    { <<">", " ", "a">>, <<">", " ", "-", " ", "a">>, <<"c">>,
      <<">", " ", ">", " ", "a">>, <<>> }

LoopSources ==
    { JoinWith(ls, <<NL>>) : ls \in UNION {[1..n -> LoopLines] : n \in 1..MaxLoopLines} }

\* the for loop that never advances
ForLoopStalled(lines) == [currentLines |-> <<>>, i |-> 0]

\* the for loop of one turn, from its first line, outside a quote
ForLoop(lines) == ConsumeRun(lines, 0, <<>>, FALSE)

\* newText.substring(tokens.at(-1).raw.length).split("\n"): the re-parsed list
\* took the old list and `taken` of the remaining lines, with or without the
\* newline behind the last of them
ListTail(rest, taken, withNewline) ==
    IF taken = Len(rest) THEN << <<>> >>
    ELSE IF withNewline THEN From(rest, taken + 1)
    ELSE << <<>> >> \o From(rest, taken + 1)

\* the kinds of last token the loop tells apart, for a turn that lexed s
TailKinds(s) ==
    LET lexed == quoteTokens(s, <<>>, TRUE)
    IN  IF lexed # <<>> /\ lexed[Len(lexed)].type = "blockquote"
        THEN {"blockquote", "list", "code"}
        ELSE {"other", "list", "code"}

\* the raw text of the quote the turn left last
TailRaw(s) ==
    LET lexed == quoteTokens(s, <<>>, TRUE) IN lexed[Len(lexed)].raw

\* the loop's position: the lines of the next turn, the lines the for loop of
\* the last turn left, the branch the last turn took, and the turns so far
Looping(type, lines, rest, tail, turns, lists) ==
    [type |-> type, lines |-> lines, rest |-> rest, tail |-> tail,
     turns |-> turns, lists |-> lists]

InitLoop ==
    /\ DisplayIdle
    /\ lexSrc \in LoopSources
    /\ thisLexer = [state |-> [top |-> TRUE], tokens |-> <<>>]
    /\ quoteTok = NotCalled
    /\ RoundTripIdle
    /\ BlockIdle
    /\ CursorIdle
    /\ EditorIdle
    /\ FnIdle

\* const cap = this.rules.block.blockquote.exec(src); if (cap) { let lines = ...
EnterLoop ==
    /\ quoteTok = NotCalled
    /\ \E lines \in {BlockquoteCap(lexSrc)} :
           quoteTok' = IF lines = <<>> THEN Unmatched
                       ELSE Looping("running", lines, <<>>, "none", 0, 0)
    /\ UNCHANGED <<displayVars, thisLexer, lexSrc, fnVars, rtVars, blockVars, cursorVars, editorVars>>

\* one turn of while (lines.length > 0)
Turn ==
    /\ quoteTok.type = "running"
    /\ \E run \in {ForLoop(quoteTok.lines)} :
       \E rest \in {From(quoteTok.lines, run.i + 1)},
          currentText \in {StripMarkers(JoinWith(run.currentLines, <<NL>>), 1)},
          turns \in {quoteTok.turns + 1} :
       \E tail \in TailKinds(currentText) :
           IF rest = <<>> \/ tail = "code"
           THEN quoteTok' = Looping("blockquote", <<>>, rest, tail, turns, quoteTok.lists)
           ELSE IF tail = "blockquote"
           THEN \E lines \in {BlockquoteCap(TailRaw(currentText) \o <<NL>>
                                            \o JoinWith(rest, <<NL>>))} :
                    quoteTok' = Looping("running", lines, rest, tail, turns, quoteTok.lists)
           ELSE IF tail = "list"
           THEN \E taken \in 0..Len(rest), withNewline \in BOOLEAN :
                    quoteTok' = Looping("running", ListTail(rest, taken, withNewline),
                                        rest, tail, turns, quoteTok.lists + 1)
           ELSE quoteTok' = Looping("running", rest, rest, tail, turns, quoteTok.lists)
    /\ UNCHANGED <<displayVars, thisLexer, lexSrc, fnVars, rtVars, blockVars, cursorVars, editorVars>>

NextLoop == EnterLoop \/ Turn

SpecLoop == InitLoop /\ [][NextLoop]_vars

\* the tokenizer is one synchronous call: a step that can be taken is taken.
\* This is WF_vars(NextLoop) written out, <>[]ENABLED <<NextLoop>>_vars =>
\* []<><<NextLoop>>_vars, with the guard of the two steps for ENABLED.
SpecLoopFair ==
    /\ SpecLoop
    /\ <>[](quoteTok.type \in {"none", "running"}) => []<><<NextLoop>>_vars

\* C23: for every source the block-quote rule matches, every turn of the outer
\* loop leaves fewer lines than it started with, a turn behind the list tail
\* included, and the loop ends
LoopTerminates ==
    /\ [][quoteTok.type = "running" =>
              /\ Len(quoteTok'.rest) < Len(quoteTok.lines)
              /\ quoteTok.tail = "list" =>
                     Len(quoteTok'.rest) < Len(quoteTok.rest)]_vars
    /\ (quoteTok.type = "running") ~> (quoteTok.type = "blockquote")

\* the loop has ended behind a turn that took the list tail
LoopEndedBehindList ==
    /\ quoteTok.type = "blockquote"
    /\ quoteTok.lists >= 1
    /\ quoteTok.turns >= 3

(***************************************************************************)
(* The fragments of parseInlineElement, child by child.                    *)
(***************************************************************************)
\* the fragment the inline restorer is said to take from one child of a block
ClaimedFragment(kid) ==
    IF "md-i" \notin kid.cls THEN <<>>
    ELSE IF kid.type = "br" THEN <<BSL, NL>>
    ELSE IF kid.type = "image"
    THEN textContent(DirectByClass(kid, "md-image-content")[1])
    ELSE IF Len(children(kid)) = 1 /\ children(kid)[1].tag = "br"
            /\ children(kid)[1].attrs = {}
    THEN <<NL, ">", SP, ZWSP>>
    ELSE textContent(kid)

\* the positions of s whose placeholder has something other than spaces and
\* line ends behind it
StrippedAt(s) ==
    {i \in 1..Len(s) : s[i] = ZWSP /\ \E j \in (i + 1)..Len(s) : s[j] \notin {SP, NL}}

\* s without the characters at the positions of gone
Without(s, gone) ==
    LET kept == (1..Len(s)) \ gone
    IN  [k \in 1..Cardinality(kept) |->
            s[CHOOSE i \in kept : Cardinality({j \in kept : j < i}) = k - 1]]

\* a paragraph with text content, restored by the inline restorer
InlineRestored ==
    bstage = "restored" /\ textContent(block) # <<>> /\ ~IsThrow(blockOut)

CursorOffsetsValid ==
    /\ 0 <= cursor.start
    /\ cursor.start <= cursor.end

(***************************************************************************)
(* The display of the markdown signs.  An element of the editing surface   *)
(* is its identity and its text content; a render that changes the markup  *)
(* replaces every element of the live tree by a new one.                   *)
(***************************************************************************)
MaxRenders == 2
MaxElements == 2

\* the text contents of the elements a cursor can land in, in document order
TreeShapes ==
    UNION {[1..n -> {<<"a">>, <<"b">>}] : n \in 1..MaxElements}

\* the elements the editing surface builds from markup, after `base` others
NewElements(shape, base) ==
    {[id |-> base + i, textContent |-> shape[i]] : i \in 1..Len(shape)}

\* element?.textContent: nothing for null
OptionalText(element) == IF element = Null THEN {} ELSE {element.textContent}

\* renderSigns without the removal from the last element
renderSignsKeepLast(container, compulsion) ==
    LET lastElement == lastHasSignDisplayElementRef
    IN  IF ~compulsion /\ (container = lastElement
                           \/ OptionalText(lastElement) = OptionalText(container))
        THEN [classes |-> signDisplay, ref |-> lastElement]
        ELSE [classes |-> signDisplay \union (IF container = Null THEN {} ELSE {container}),
              ref |-> container]

\* renderSigns(container, compulsion): the elements holding the class and the
\* reference, behind the call
renderSigns(container, compulsion) ==
    LET lastElement == lastHasSignDisplayElementRef
    IN  IF ~compulsion /\ (container = lastElement
                           \/ OptionalText(lastElement) = OptionalText(container))
        THEN [classes |-> signDisplay, ref |-> lastElement]
        ELSE [classes |-> (signDisplay \ {lastElement})
                              \union (IF container = Null THEN {} ELSE {container}),
              ref |-> container]

\* the editor mounted and rendered its source
InitDisplay ==
    /\ liveTree \in {NewElements(shape, 0) : shape \in TreeShapes}
    /\ signDisplay = {}
    /\ lastHasSignDisplayElementRef = Null
    /\ RoundTripIdle
    /\ BlockIdle
    /\ CursorIdle
    /\ EditorIdle
    /\ LexIdle
    /\ FnIdle

\* handleCursorMove: the container is an element of the live tree, or null when
\* there is no selection or no markdown element around it; the flag is absent,
\* the frame's time stamp, or true from the cursor effect
HandleCursorMove ==
    /\ \E container \in liveTree \union {Null}, compulsion \in BOOLEAN :
           /\ signDisplay' = renderSigns(container, compulsion).classes
           /\ lastHasSignDisplayElementRef' = renderSigns(container, compulsion).ref
    /\ UNCHANGED <<liveTree, lexVars, fnVars, rtVars, blockVars, cursorVars, editorVars>>

\* handleBlur: renderSigns(null)
HandleBlur ==
    /\ signDisplay' = renderSigns(Null, FALSE).classes
    /\ lastHasSignDisplayElementRef' = renderSigns(Null, FALSE).ref
    /\ UNCHANGED <<liveTree, lexVars, fnVars, rtVars, blockVars, cursorVars, editorVars>>

\* the editing surface takes new markup: the old elements leave the live
\* tree as they are, the reference keeps pointing at one of them
ReRender ==
    /\ \E base \in {e.id : e \in liveTree} :
           /\ \A e \in liveTree : e.id <= base
           /\ base + MaxElements <= (MaxRenders + 1) * MaxElements
           /\ \E shape \in TreeShapes : liveTree' = NewElements(shape, base)
    /\ UNCHANGED <<signDisplay, lastHasSignDisplayElementRef, lexVars, fnVars, rtVars,
                   blockVars, cursorVars, editorVars>>

NextDisplay == HandleCursorMove \/ HandleBlur \/ ReRender

SpecDisplay == InitDisplay /\ [][NextDisplay]_vars

\* the elements of the live tree holding the class
Displayed == signDisplay \intersect liveTree

\* C26: after any cursor moves, blur events and renders at most one element
\* of the live tree holds the class "sign-display", an element holding it is
\* the one lastHasSignDisplayElementRef records, and behind a blur event no
\* element holds it
SignDisplayExclusive ==
    /\ [](/\ Cardinality(Displayed) <= 1
          /\ Displayed \subseteq {lastHasSignDisplayElementRef})
    /\ [][HandleBlur => Displayed' = {}]_vars

\* an element of a later render holds the class, beside one that does not
SignDisplayedAfterRender ==
    /\ Cardinality(liveTree) = 2
    /\ Displayed = {lastHasSignDisplayElementRef}
    /\ lastHasSignDisplayElementRef.id > MaxElements

=============================================================================
